---- MODULE Spec2Model ----
(***************************************************************************)
(* A model of the netlink message parser and the attribute codec of        *)
(* rustables (src/src/parser.rs).                                          *)
(*                                                                         *)
(* Buffers are sequences of bytes (0..255).  Multi-byte fields are read    *)
(* and written in the host byte order of the build (little endian), as     *)
(* the pointer casts of the source do.  The buffers of the attribute codec *)
(* are held run-length encoded (a sequence of runs [b, n]: n bytes of      *)
(* value b), so that payloads beyond the range of a 16-bit nla_len fit in  *)
(* a state; BLen, BTake, BDrop, BCat and BBytes are the sequence           *)
(* operations on that form.                                                *)
(***************************************************************************)
EXTENDS Integers, Sequences, FiniteSets, TLC

VARIABLES
    overflow_checks,  \* build profile: TRUE = integer overflow panics, FALSE = it wraps
    buf,              \* the receive buffer handed to parse_nlmsg
    nlpc,             \* position of the receive step: "recv", "parsed"
    nlres,            \* the value returned by parse_nlmsg(buf)
    attrs,            \* an NfNetlinkAttributes set: [m: the map, order: its iteration order]
    attrs2,           \* a second NfNetlinkAttributes set, built independently
    last_set,         \* history: for each type, the value of the last set_attr on attrs
    ncalls,           \* history: the number of set_attr calls made on each set
    wire,             \* the bytes written by serialize(attrs), or received
    wire2,            \* the bytes written by serialize(attrs2)
    declared,         \* the remaining size handed to NfNetlinkAttributeReader::new
    rd,               \* the reader: [pos, remaining_size, attrs, count]
    apc,              \* position: "build", "serialized", "reading", "done"
    dres,             \* the value returned by NfNetlinkAttributeReader::new / decode
    rules,            \* the two Rule objects at hand (each: chain, attributes set, exprs)
    added,            \* history: the expressions handed to add_expr on rules[1], in call order
    rpc,              \* position: "build", "compared", "written", "iter", "iterdone", "failed"
    eqres,            \* the values returned by == and deep_eq on the rules
    nlhdr_out,        \* the header built by Rule::write
    bcall,            \* history: the last call on rules[1]: its arguments, the
                      \* expressions before it, the error it returned, the calls so far
    iter,             \* RuleExprsIter: the number of expressions it has passed
    seen,             \* the expressions RuleExprsIter has returned, in order
    batch,            \* the Batch: [state, msgs, seq]
    batch_hist,       \* history: the add calls in call order, each with the state of the
                      \* batch at the call
    batch_res,        \* the outcome of the last Batch operation
    issued,           \* the sequence numbers issued in the batch that was sent
    inbox,            \* the reply messages the socket holds, oldest first
    sent,             \* history: the replies the kernel has sent, in order
    outcomes,         \* the outcome reported for each issued sequence number
    recv_pc,          \* the receive loop: "recv", "stopped", "failed", "panic"
    pores             \* the value returned by parse_object(buf)

nlvars == <<buf, nlpc, nlres>>
avars == <<attrs, attrs2, last_set, ncalls, wire, wire2, declared, rd, apc, dres>>
rvars == <<rules, added, rpc, eqres, nlhdr_out, bcall, iter, seen>>
bvars == <<batch, batch_hist, batch_res>>
pvars == <<issued, inbox, sent, outcomes, recv_pc, pores>>
vars == <<overflow_checks, buf, nlpc, nlres,
          attrs, attrs2, last_set, ncalls, wire, wire2, declared, rd, apc, dres,
          rules, added, rpc, eqres, nlhdr_out, bcall, iter, seen,
          batch, batch_hist, batch_res,
          issued, inbox, sent, outcomes, recv_pc, pores>>

----------------------------------------------------------------------------
(* Program constants *)

\* libc::NLMSG_NOOP, NLMSG_ERROR, NLMSG_DONE, NLMSG_MIN_TYPE
NLMSG_NOOP == 1
NLMSG_ERROR == 2
NLMSG_DONE == 3
NLMSG_MIN_TYPE == 16
\* libc::NLM_F_DUMP_INTR
NLM_F_DUMP_INTR == 16
\* libc::NFNL_SUBSYS_NFTABLES, libc::NFNETLINK_V0
NFNL_SUBSYS_NFTABLES == 10
NFNETLINK_V0 == 0
\* libc::NLA_TYPE_MASK = !(NLA_F_NESTED | NLA_F_NET_BYTEORDER)
NLA_TYPE_MASK == 16383
\* size_of::<nlmsghdr>(), size_of::<nlmsgerr>(), size_of::<Nfgenmsg>(), size_of::<nlattr>()
size_of_nlmsghdr == 16
size_of_nlmsgerr == 20
size_of_Nfgenmsg == 4
size_of_nlattr == 4

I32_MAX == 2147483647
I32_MIN == (-2147483647) - 1
U16_MOD == 65536

----------------------------------------------------------------------------
(* Integer helpers: the bit operations of the source on naturals *)

RECURSIVE BitAnd(_, _)
BitAnd(x, y) ==
    IF x = 0 \/ y = 0 THEN 0
    ELSE (x % 2) * (y % 2) + 2 * BitAnd(x \div 2, y \div 2)

\* (size + 3) & (!3)
pad_netlink_object_with_variable_size(size) ==
    (size + 3) - BitAnd(size + 3, 3)

\* pad_netlink_object::<T>() for a T of the given size
pad_netlink_object(size_of_T) ==
    pad_netlink_object_with_variable_size(size_of_T)

\* mutant: the low byte (the operation) taken for the subsystem
get_subsystem_low_byte(x) ==
    BitAnd(x, 255) % 256

\* ((x & 0xff00) >> 8) as u8
get_subsystem_from_nlmsghdr_type(x) ==
    (BitAnd(x, 65280) \div 256) % 256

\* (x & 0x00ff) as u8
get_operation_from_nlmsghdr_type(x) ==
    BitAnd(x, 255) % 256

----------------------------------------------------------------------------
(* Reading and writing fields of a byte buffer (offsets count from 0) *)

u16_at(b, off) == b[off + 1] + 256 * b[off + 2]

\* a u32 whose value is below 2^31 (the buffers of the model hold no larger one)
u32_at(b, off) ==
    b[off + 1] + 256 * b[off + 2] + 65536 * b[off + 3] + 16777216 * b[off + 4]

\* a two's complement i32
i32_at(b, off) ==
    b[off + 1] + 256 * b[off + 2] + 65536 * b[off + 3]
        + 16777216 * (IF b[off + 4] >= 128 THEN b[off + 4] - 256 ELSE b[off + 4])

le16(v) == <<v % 256, (v \div 256) % 256>>

le32(v) == <<v % 256, (v \div 256) % 256, (v \div 65536) % 256, (v \div 16777216) % 256>>

Take(s, n) == SubSeq(s, 1, IF n < Len(s) THEN n ELSE Len(s))

Slice(s, from, to) == SubSeq(s, from + 1, to)

\* the nlmsghdr at the start of b
read_nlmsghdr(b, off) ==
    [nlmsg_len   |-> u32_at(b, off),
     nlmsg_type  |-> u16_at(b, off + 4),
     nlmsg_flags |-> u16_at(b, off + 6),
     nlmsg_seq   |-> u32_at(b, off + 8),
     nlmsg_pid   |-> u32_at(b, off + 12)]

NoHdr ==
    [nlmsg_len |-> -1, nlmsg_type |-> -1, nlmsg_flags |-> -1,
     nlmsg_seq |-> -1, nlmsg_pid |-> -1]

NoGen == [family |-> -1, version |-> -1, res_id |-> -1]

----------------------------------------------------------------------------
(* get_nlmsghdr and parse_nlmsg *)

HdrErr(e) == [ok |-> FALSE, err |-> e, hdr |-> NoHdr]

\* mutant: the lower bound on nlmsg_len is not checked
get_nlmsghdr_no_min_len(b) ==
    IF Len(b) < size_of_nlmsghdr THEN HdrErr("BufTooSmall")
    ELSE LET nlmsghdr == read_nlmsghdr(b, 0) IN
         IF nlmsghdr.nlmsg_len > Len(b)
         THEN HdrErr("NlMsgTooSmall")
         ELSE IF BitAnd(nlmsghdr.nlmsg_flags, NLM_F_DUMP_INTR) # 0
         THEN HdrErr("ConcurrentGenerationUpdate")
         ELSE [ok |-> TRUE, err |-> "", hdr |-> nlmsghdr]

\* mutant: the dump-interrupted flag is not looked at
get_nlmsghdr_no_intr(b) ==
    IF Len(b) < size_of_nlmsghdr THEN HdrErr("BufTooSmall")
    ELSE LET nlmsghdr == read_nlmsghdr(b, 0) IN
         IF nlmsghdr.nlmsg_len > Len(b) \/ nlmsghdr.nlmsg_len < size_of_nlmsghdr
         THEN HdrErr("NlMsgTooSmall")
         ELSE [ok |-> TRUE, err |-> "", hdr |-> nlmsghdr]

get_nlmsghdr(b) ==
    IF Len(b) < size_of_nlmsghdr THEN HdrErr("BufTooSmall")
    ELSE LET nlmsghdr == read_nlmsghdr(b, 0) IN
         IF nlmsghdr.nlmsg_len > Len(b) \/ nlmsghdr.nlmsg_len < size_of_nlmsghdr
         THEN HdrErr("NlMsgTooSmall")
         ELSE IF BitAnd(nlmsghdr.nlmsg_flags, NLM_F_DUMP_INTR) # 0
         THEN HdrErr("ConcurrentGenerationUpdate")
         ELSE [ok |-> TRUE, err |-> "", hdr |-> nlmsghdr]

\* Results of parse_nlmsg: tag "Ok" (hdr, msg and the fields of the NlMsg variant),
\* "Err" (err, arg) or "Panic" (the overflow check of the build aborted the call).
ParseBase ==
    [tag |-> "Err", err |-> "", arg |-> -1, hdr |-> NoHdr, msg |-> "None",
     error |-> 0, errmsg |-> NoHdr, nfgenmsg |-> NoGen, raw_value |-> <<>>]

ParseErr(e, a) == [ParseBase EXCEPT !.err = e, !.arg = a]

ParsePanic == [ParseBase EXCEPT !.tag = "Panic"]

ParseOk(h, m) == [ParseBase EXCEPT !.tag = "Ok", !.hdr = h, !.msg = m]

\* i32::abs: overflows on i32::MIN; the build either panics or wraps
i32_abs(e) ==
    IF e = I32_MIN
    THEN IF overflow_checks THEN [panic |-> TRUE, val |-> 0]
         ELSE [panic |-> FALSE, val |-> I32_MIN]
    ELSE [panic |-> FALSE, val |-> IF e < 0 THEN -e ELSE e]

parse_nlmsg(b) ==
    LET got == get_nlmsghdr(b) IN
    IF ~got.ok THEN ParseErr(got.err, -1)
    ELSE
    LET nlmsghdr == got.hdr
        size_of_hdr == pad_netlink_object(size_of_nlmsghdr)
        size_of_nfgenmsg == pad_netlink_object(size_of_Nfgenmsg)
        subsys == get_subsystem_from_nlmsghdr_type(nlmsghdr.nlmsg_type)
    IN
    IF nlmsghdr.nlmsg_type < NLMSG_MIN_TYPE
    THEN
        IF nlmsghdr.nlmsg_type = NLMSG_NOOP THEN ParseOk(nlmsghdr, "Noop")
        ELSE IF nlmsghdr.nlmsg_type = NLMSG_ERROR THEN
            IF nlmsghdr.nlmsg_len > Len(b)
               \/ nlmsghdr.nlmsg_len < size_of_hdr + size_of_nlmsgerr
            THEN ParseErr("NlMsgTooSmall", -1)
            ELSE LET a == i32_abs(i32_at(b, size_of_hdr)) IN
                 IF a.panic THEN ParsePanic
                 ELSE [ParseOk(nlmsghdr, "Error") EXCEPT
                          !.error = a.val,
                          !.errmsg = read_nlmsghdr(b, size_of_hdr + 4)]
        ELSE IF nlmsghdr.nlmsg_type = NLMSG_DONE THEN ParseOk(nlmsghdr, "Done")
        ELSE ParseErr("UnsupportedType", nlmsghdr.nlmsg_type)
    ELSE IF subsys # NFNL_SUBSYS_NFTABLES THEN ParseErr("InvalidSubsystem", subsys)
    ELSE IF nlmsghdr.nlmsg_len > Len(b)
            \/ nlmsghdr.nlmsg_len < size_of_hdr + size_of_nfgenmsg
    THEN ParseErr("NlMsgTooSmall", -1)
    ELSE
    LET nfgenmsg == [family  |-> b[size_of_hdr + 1],
                     version |-> b[size_of_hdr + 2],
                     res_id  |-> u16_at(b, size_of_hdr + 2)]
    IN
    IF nfgenmsg.version # NFNETLINK_V0 THEN ParseErr("InvalidVersion", nfgenmsg.version)
    ELSE [ParseOk(nlmsghdr, "NfGenMsg") EXCEPT
             !.nfgenmsg = nfgenmsg,
             !.raw_value = Slice(b, size_of_hdr + size_of_nfgenmsg, nlmsghdr.nlmsg_len)]

----------------------------------------------------------------------------
(* Run-length encoded byte buffers: no empty run, no two adjacent runs of the
   same byte, so that equal buffers are equal values *)

Run(b, n) == [b |-> b, n |-> n]

RECURSIVE BLen(_)
BLen(B) == IF B = <<>> THEN 0 ELSE Head(B).n + BLen(Tail(B))

BCat(A, B) ==
    IF A = <<>> THEN B
    ELSE IF B = <<>> THEN A
    ELSE IF A[Len(A)].b = B[1].b
    THEN SubSeq(A, 1, Len(A) - 1) \o <<Run(B[1].b, A[Len(A)].n + B[1].n)>> \o Tail(B)
    ELSE A \o B

RECURSIVE BDrop(_, _)
BDrop(B, k) ==
    IF k <= 0 \/ B = <<>> THEN B
    ELSE IF Head(B).n <= k THEN BDrop(Tail(B), k - Head(B).n)
    ELSE <<Run(Head(B).b, Head(B).n - k)>> \o Tail(B)

RECURSIVE BTake(_, _)
BTake(B, k) ==
    IF k <= 0 \/ B = <<>> THEN <<>>
    ELSE IF Head(B).n <= k THEN <<Head(B)>> \o BTake(Tail(B), k - Head(B).n)
    ELSE <<Run(Head(B).b, k)>>

\* the bytes at offsets from .. to-1
BSlice(B, from, to) == BTake(BDrop(B, from), to - from)

BZeros(n) == IF n = 0 THEN <<>> ELSE <<Run(0, n)>>

\* the buffer holding the bytes of the sequence s
RECURSIVE BOf(_)
BOf(s) == IF s = <<>> THEN <<>> ELSE BCat(<<Run(Head(s), 1)>>, BOf(Tail(s)))

\* the bytes of a (short) buffer as a sequence
RECURSIVE BBytes(_)
BBytes(B) ==
    IF B = <<>> THEN <<>> ELSE [i \in 1..Head(B).n |-> Head(B).b] \o BBytes(Tail(B))

\* the u16 at offset off of B
bu16_at(B, off) == u16_at(BBytes(BSlice(B, off, off + 2)), 0)

----------------------------------------------------------------------------
(* Attributes and the attribute set *)

\* An Attribute: kind is the variant; num holds the value of an integer or
\* protocol-family variant, bytes the content of a String (UTF-8) or Vec<u8>.
Att(kind, num, bytes) == [kind |-> kind, num |-> num, bytes |-> bytes]

NoAtt == Att("None", 0, <<>>)

\* a u64 below 2^31 (the sets of the model hold no larger one)
le64(v) == le32(v) \o <<0, 0, 0, 0>>

\* NfNetlinkAttribute::get_size: size_of::<Self>(), the length for String and Vec<u8>
get_size(a) ==
    CASE a.kind \in {"String", "VecU8"} -> BLen(a.bytes)
      [] a.kind = "U8" -> 1
      [] a.kind = "U16" -> 2
      [] a.kind \in {"U32", "ProtoFamily"} -> 4
      [] a.kind = "U64" -> 8

\* NfNetlinkAttribute::write_payload: the bytes stored at addr
write_payload(a) ==
    CASE a.kind \in {"String", "VecU8"} -> a.bytes
      [] a.kind = "U8" -> BOf(<<a.num>>)
      [] a.kind = "U16" -> BOf(le16(a.num))
      [] a.kind \in {"U32", "ProtoFamily"} -> BOf(le32(a.num))
      [] a.kind = "U64" -> BOf(le64(a.num))

\* NfNetlinkWriter::add_data_zeroed: the buffer grows by the padded size, zero filled
add_data_zeroed(w, size) ==
    BCat(w, BZeros(pad_netlink_object_with_variable_size(size)))

\* copy_nonoverlapping into the buffer at offset start
copy_at(w, start, bytes) ==
    BCat(BCat(BTake(w, start), bytes), BDrop(w, start + BLen(bytes)))

write_attribute(ty, obj, w) ==
    LET header_len == pad_netlink_object(size_of_nlattr)
        \* (header_len + obj.get_size()) as u16
        nla_len == (header_len + get_size(obj)) % U16_MOD
        w1 == copy_at(add_data_zeroed(w, header_len), BLen(w),
                      BOf(le16(nla_len) \o le16(ty)))
    IN  copy_at(add_data_zeroed(w1, get_size(obj)), BLen(w1), write_payload(obj))

\* NfNetlinkAttributes::new
attrs_new == [m |-> <<>>, order |-> <<>>]

InsertAt(s, at, x) == SubSeq(s, 1, at) \o <<x>> \o SubSeq(s, at + 1, Len(s))

\* NfNetlinkAttributes::set_attr (HashMap::insert); a new key lands at place `at` of
\* the iteration order, which the hasher decides
set_attr(h, ty, obj, at) ==
    IF ty \in DOMAIN h.m
    THEN [h EXCEPT !.m = [h.m EXCEPT ![ty] = obj]]
    ELSE [m |-> [k \in DOMAIN h.m \cup {ty} |-> IF k = ty THEN obj ELSE h.m[k]],
          order |-> InsertAt(h.order, at, ty)]

\* NfNetlinkAttributes::get_attr
get_attr(h, ty) == IF ty \in DOMAIN h.m THEN h.m[ty] ELSE NoAtt

RECURSIVE insert_sorted(_, _)
insert_sorted(s, x) ==
    IF s = <<>> THEN <<x>>
    ELSE IF x <= Head(s) THEN <<x>> \o s
    ELSE <<Head(s)>> \o insert_sorted(Tail(s), x)

\* mutant: the keys are left in the iteration order of the map
sort_keys_unsorted(keys) == keys

RECURSIVE sort_keys(_)
\* keys.sort()
sort_keys(keys) ==
    IF keys = <<>> THEN <<>> ELSE insert_sorted(sort_keys(Tail(keys)), Head(keys))

RECURSIVE write_all(_, _, _)
write_all(keys, m, w) ==
    IF keys = <<>> THEN w
    ELSE write_all(Tail(keys), m, write_attribute(Head(keys), m[Head(keys)], w))

\* SerializeNfNetlink for NfNetlinkAttributes
serialize(h, w) == write_all(sort_keys(h.order), h.m, w)

----------------------------------------------------------------------------
(* The attribute reader *)

DecBase == [tag |-> "None", err |-> "", arg |-> -1, attrs |-> attrs_new]

DecErr(e, a) == [DecBase EXCEPT !.tag = "Err", !.err = e, !.arg = a]

DecOk(h) == [DecBase EXCEPT !.tag = "Ok", !.attrs = h]

\* the call aborted: a panic (index or overflow check), or a fault on a wild read
DecPanic == [DecBase EXCEPT !.tag = "Panic"]
DecFault == [DecBase EXCEPT !.tag = "Fault"]

NoReader == [pos |-> 0, remaining_size |-> 0, attrs |-> attrs_new, count |-> 0]

\* NfNetlinkAttributeReader::new
reader_new(b, remaining_size) ==
    IF BLen(b) < remaining_size
    THEN [ok |-> FALSE, err |-> "BufTooSmall", reader |-> NoReader]
    ELSE [ok |-> TRUE, err |-> "",
          reader |-> [pos |-> 0, remaining_size |-> remaining_size,
                      attrs |-> attrs_new, count |-> 0]]

\* The attribute types of the object kind being decoded and the variant of each
Schema ==
    [t \in 1..7 |->
        CASE t = 1 -> "String" [] t = 2 -> "U8" [] t = 3 -> "U16" [] t = 4 -> "U32"
          [] t = 5 -> "U64" [] t = 6 -> "VecU8" [] t = 7 -> "ProtoFamily"]

ProtoFamilies == {0, 1, 2, 3, 5, 7, 10, 12}

\* T::decode_attribute of that object kind
decode_attribute(nla_type, slice) ==
    IF nla_type \notin DOMAIN Schema
    THEN [ok |-> FALSE, err |-> "UnsupportedAttributeType", arg |-> nla_type, attr |-> NoAtt]
    ELSE
    LET kind == Schema[nla_type]
        good(a) == [ok |-> TRUE, err |-> "", arg |-> -1, attr |-> a]
        bad(e) == [ok |-> FALSE, err |-> e, arg |-> -1, attr |-> NoAtt]
    IN
    CASE kind = "String" ->
            IF \A i \in 1..Len(slice) : slice[i].b < 128
            THEN good(Att("String", 0, slice)) ELSE bad("StringDecodeFailure")
      [] kind = "VecU8" -> good(Att("VecU8", 0, slice))
      [] kind = "U8" ->
            IF BLen(slice) = 1 THEN good(Att("U8", BBytes(slice)[1], <<>>)) ELSE bad("Custom")
      [] kind = "U16" ->
            IF BLen(slice) = 2
            THEN good(Att("U16", u16_at(BBytes(slice), 0), <<>>)) ELSE bad("Custom")
      [] kind = "U32" ->
            IF BLen(slice) = 4 /\ BBytes(slice)[4] < 128
            THEN good(Att("U32", u32_at(BBytes(slice), 0), <<>>)) ELSE bad("Custom")
      [] kind = "U64" ->
            IF BLen(slice) = 8 /\ BBytes(slice)[4] < 128
               /\ SubSeq(BBytes(slice), 5, 8) = <<0, 0, 0, 0>>
            THEN good(Att("U64", u32_at(BBytes(slice), 0), <<>>)) ELSE bad("Custom")
      [] kind = "ProtoFamily" ->
            IF BLen(slice) # 4 \/ BBytes(slice)[4] >= 128 THEN bad("Custom")
            ELSE IF u32_at(BBytes(slice), 0) \in ProtoFamilies
            THEN good(Att("ProtoFamily", u32_at(BBytes(slice), 0), <<>>))
            ELSE bad("InvalidProtocolFamily")

\* A usize that wrapped below zero is kept as the negative number it wrapped from.
\* self.remaining_size > pad_netlink_object::<nlattr>()
loop_cond(r) == r.remaining_size < 0 \/ r.remaining_size > pad_netlink_object(size_of_nlattr)

\* what a read of an nlattr beyond the end of the buffer may find there
WildAttrs == {[nla_len |-> 0, nla_type |-> 0], [nla_len |-> 4, nla_type |-> 6],
              [nla_len |-> 8, nla_type |-> 6]}

\* mutant: an attribute that fails to decode ends the loop with the attributes decoded
\* so far
decode_body_keep_partial(b, r, nlattr, at) ==
    LET hdr_len == pad_netlink_object(size_of_nlattr)
        nla_type == BitAnd(nlattr.nla_type, NLA_TYPE_MASK)
        pos1 == r.pos + hdr_len
        attr_remaining_size == nlattr.nla_len - hdr_len
    IN
    IF attr_remaining_size < 0 THEN [done |-> TRUE, res |-> DecPanic, reader |-> r]
    ELSE IF pos1 + attr_remaining_size > BLen(b) THEN [done |-> TRUE, res |-> DecPanic, reader |-> r]
    ELSE
    LET d == decode_attribute(nla_type, BSlice(b, pos1, pos1 + attr_remaining_size))
        dec == pad_netlink_object_with_variable_size(nlattr.nla_len)
    IN
    IF ~d.ok THEN [done |-> TRUE, res |-> DecOk(r.attrs), reader |-> r]
    ELSE IF r.remaining_size >= 0 /\ dec > r.remaining_size /\ overflow_checks
    THEN [done |-> TRUE, res |-> DecPanic, reader |-> r]
    ELSE [done |-> FALSE, res |-> DecBase,
          reader |-> [pos |-> pos1 + pad_netlink_object_with_variable_size(attr_remaining_size),
                      remaining_size |-> r.remaining_size - dec,
                      attrs |-> set_attr(r.attrs, nla_type, d.attr, at),
                      count |-> r.count + 1]]

\* One iteration of the loop of decode, given the nlattr read at pos and the place the
\* map gives a new key: the next reader, or the value decode returns.
decode_body(b, r, nlattr, at) ==
    LET hdr_len == pad_netlink_object(size_of_nlattr)
        nla_type == BitAnd(nlattr.nla_type, NLA_TYPE_MASK)
        pos1 == r.pos + hdr_len
        attr_remaining_size == nlattr.nla_len - hdr_len
    IN
    \* nla_len - 4 below zero: the overflow check panics, or the wrapped length makes
    \* the end of the slice lie before its start, which panics as well
    IF attr_remaining_size < 0 THEN [done |-> TRUE, res |-> DecPanic, reader |-> r]
    \* &self.buf[self.pos..self.pos + attr_remaining_size]
    ELSE IF pos1 + attr_remaining_size > BLen(b) THEN [done |-> TRUE, res |-> DecPanic, reader |-> r]
    ELSE
    LET d == decode_attribute(nla_type, BSlice(b, pos1, pos1 + attr_remaining_size))
        dec == pad_netlink_object_with_variable_size(nlattr.nla_len)
    IN
    IF ~d.ok THEN [done |-> TRUE, res |-> DecErr(d.err, d.arg), reader |-> r]
    \* self.remaining_size -= ...: below zero, the overflow check panics or the value wraps
    ELSE IF r.remaining_size >= 0 /\ dec > r.remaining_size /\ overflow_checks
    THEN [done |-> TRUE, res |-> DecPanic, reader |-> r]
    ELSE [done |-> FALSE, res |-> DecBase,
          reader |-> [pos |-> pos1 + pad_netlink_object_with_variable_size(attr_remaining_size),
                      remaining_size |-> r.remaining_size - dec,
                      attrs |-> set_attr(r.attrs, nla_type, d.attr, at),
                      count |-> r.count + 1]]

\* The values one pass of the loop of decode may produce
decode_step(b, r) ==
    IF ~loop_cond(r) THEN {[done |-> TRUE, res |-> DecOk(r.attrs), reader |-> r]}
    \* self.buf[self.pos..]
    ELSE IF r.pos > BLen(b) THEN {[done |-> TRUE, res |-> DecPanic, reader |-> r]}
    \* the nlattr is read through a raw pointer: beyond the buffer, anything may be read
    ELSE IF r.pos + size_of_nlattr > BLen(b)
    THEN {[done |-> TRUE, res |-> DecFault, reader |-> r]}
         \cup {decode_body(b, r, g, at) : g \in WildAttrs, at \in 0..Len(r.attrs.order)}
    ELSE {decode_body(b, r, [nla_len |-> bu16_at(b, r.pos), nla_type |-> bu16_at(b, r.pos + 2)], at)
            : at \in 0..Len(r.attrs.order)}

----------------------------------------------------------------------------
(* Attribute values and sets the model draws from *)

\* the longest small String / Vec<u8> payload
MaxPayload == 5
\* the number of set_attr calls made on one set
MaxSetCalls == 3
\* the number of 4-byte words that follow a received attribute header
MaxWords == 2

SmallValues ==
    {<<1, Att("String", 0, BOf([i \in 1..n |-> 96 + i]))>> : n \in {0, 1, MaxPayload}}
    \cup {<<2, Att("U8", v, <<>>)>> : v \in {0, 255}}
    \cup {<<3, Att("U16", 258, <<>>)>>, <<4, Att("U32", 16909060, <<>>)>>,
          <<5, Att("U64", 5, <<>>)>>}
    \cup {<<6, Att("VecU8", 0, BOf([i \in 1..n |-> i]))>> : n \in 0..MaxPayload}
    \cup {<<7, Att("ProtoFamily", v, <<>>)>> : v \in {1, 2}}

\* payloads around the largest length a 16-bit nla_len can state
BigValues ==
    {<<6, Att("VecU8", 0, BZeros(n))>> : n \in {U16_MOD - 5, U16_MOD - 4, U16_MOD + 1}}

One(tv) == set_attr(attrs_new, tv[1], tv[2], 0)

Pairs(firsts, seconds) ==
    UNION {{set_attr(One(a), b[1], b[2], at) :
              b \in {x \in seconds : x[1] # a[1]}, at \in {0, 1}} : a \in firsts}

CodecSets ==
    {One(tv) : tv \in SmallValues \cup BigValues}
    \cup Pairs(SmallValues, SmallValues)
    \cup Pairs(BigValues, {x \in SmallValues : x[1] \in {1, 7}})

\* a received attribute: a header stating nla_len and type, followed by `words` words
RawAttr(nla_len, ty, words) ==
    BOf(le16(nla_len) \o le16(ty) \o [i \in 1..(4 * words) |-> 1])

RawAttrs ==
    {RawAttr(l, t, w) : l \in {0, 4, 5, 8, 12}, t \in {2, 6, 8}, w \in 0..MaxWords}

RawWires ==
    {<<>>} \cup RawAttrs \cup {BCat(a, b) : a \in RawAttrs, b \in RawAttrs}

----------------------------------------------------------------------------
(* Building, serializing and decoding an attribute set *)

CodecIdle ==
    /\ attrs = attrs_new /\ attrs2 = attrs_new
    /\ last_set = <<>> /\ ncalls = <<0, 0>>
    /\ wire = <<>> /\ wire2 = <<>> /\ declared = 0
    /\ rd = NoReader /\ apc = "idle" /\ dres = DecBase

ParseIdle ==
    /\ buf = <<>> /\ nlpc = "idle" /\ nlres = ParseBase

RuleIdle ==
    /\ rules = <<>> /\ added = <<>> /\ rpc = "idle" /\ eqres = <<>>
    /\ nlhdr_out = <<>> /\ bcall = <<>> /\ iter = 0 /\ seen = <<>>

BatchIdle ==
    /\ batch = <<>> /\ batch_hist = <<>> /\ batch_res = "idle"

RecvIdle ==
    /\ issued = {} /\ inbox = <<>> /\ sent = <<>> /\ outcomes = <<>>
    /\ recv_pc = "idle" /\ pores = <<>>

\* the values set_attr is called with
SetValues ==
    {<<1, Att("String", 0, <<>>)>>, <<1, Att("String", 0, BOf(<<97>>))>>,
     <<2, Att("U8", 255, <<>>)>>, <<6, Att("VecU8", 0, BOf(<<1>>))>>}

\* set_attr on the first set
SetAttr ==
    /\ apc = "build" /\ ncalls[1] < MaxSetCalls
    /\ \E tv \in SetValues, at \in 0..Len(attrs.order) :
          /\ attrs' = set_attr(attrs, tv[1], tv[2], at)
          /\ last_set' = [k \in DOMAIN last_set \cup {tv[1]} |->
                             IF k = tv[1] THEN tv[2] ELSE last_set[k]]
    /\ ncalls' = <<ncalls[1] + 1, ncalls[2]>>
    /\ UNCHANGED <<attrs2, wire, wire2, declared, rd, apc, dres>>
    /\ UNCHANGED <<overflow_checks, buf, nlpc, nlres>>
    /\ UNCHANGED <<rvars, bvars, pvars>>

\* set_attr on the second set
SetAttr2 ==
    /\ apc = "build" /\ ncalls[2] < MaxSetCalls
    /\ \E tv \in SetValues, at \in 0..Len(attrs2.order) :
          attrs2' = set_attr(attrs2, tv[1], tv[2], at)
    /\ ncalls' = <<ncalls[1], ncalls[2] + 1>>
    /\ UNCHANGED <<attrs, last_set, wire, wire2, declared, rd, apc, dres>>
    /\ UNCHANGED <<overflow_checks, buf, nlpc, nlres>>
    /\ UNCHANGED <<rvars, bvars, pvars>>

\* serialize of each set into an empty writer
Serialize ==
    /\ apc = "build"
    /\ wire' = serialize(attrs, <<>>)
    /\ wire2' = serialize(attrs2, <<>>)
    /\ declared' = BLen(wire')
    /\ apc' = "serialized"
    /\ UNCHANGED <<attrs, attrs2, last_set, ncalls, rd, dres>>
    /\ UNCHANGED <<overflow_checks, buf, nlpc, nlres>>
    /\ UNCHANGED <<rvars, bvars, pvars>>

\* NfNetlinkAttributeReader::new(wire, declared)
NewReader ==
    /\ apc = "serialized"
    /\ LET n == reader_new(wire, declared) IN
          IF n.ok
          THEN rd' = n.reader /\ apc' = "reading" /\ dres' = dres
          ELSE rd' = rd /\ apc' = "done" /\ dres' = DecErr(n.err, -1)
    /\ UNCHANGED <<attrs, attrs2, last_set, ncalls, wire, wire2, declared>>
    /\ UNCHANGED <<overflow_checks, buf, nlpc, nlres>>
    /\ UNCHANGED <<rvars, bvars, pvars>>

\* one pass of the loop of NfNetlinkAttributeReader::decode, or its return
DecodeStep ==
    /\ apc = "reading"
    /\ \E o \in decode_step(wire, rd) :
          /\ rd' = o.reader
          /\ dres' = o.res
          /\ apc' = IF o.done THEN "done" ELSE "reading"
    /\ UNCHANGED <<attrs, attrs2, last_set, ncalls, wire, wire2, declared>>
    /\ UNCHANGED <<overflow_checks, buf, nlpc, nlres>>
    /\ UNCHANGED <<rvars, bvars, pvars>>

InitSet ==
    /\ overflow_checks \in BOOLEAN
    /\ ParseIdle /\ RuleIdle /\ BatchIdle /\ RecvIdle
    /\ attrs = attrs_new /\ attrs2 = attrs_new
    /\ last_set = <<>> /\ ncalls = <<0, 0>>
    /\ wire = <<>> /\ wire2 = <<>> /\ declared = 0
    /\ rd = NoReader /\ apc = "build" /\ dres = DecBase

NextSet == SetAttr \/ SetAttr2 \/ Serialize

SpecSet == InitSet /\ [][NextSet]_vars

InitCodec ==
    /\ overflow_checks \in BOOLEAN
    /\ ParseIdle /\ RuleIdle /\ BatchIdle /\ RecvIdle
    /\ attrs \in CodecSets /\ attrs2 = attrs_new
    /\ last_set = <<>> /\ ncalls = <<0, 0>>
    /\ wire = <<>> /\ wire2 = <<>> /\ declared = 0
    /\ rd = NoReader /\ apc = "build" /\ dres = DecBase

NextCodec == Serialize \/ NewReader \/ DecodeStep

SpecCodec == InitCodec /\ [][NextCodec]_vars

InitReader ==
    /\ overflow_checks \in BOOLEAN
    /\ ParseIdle /\ RuleIdle /\ BatchIdle /\ RecvIdle
    /\ attrs = attrs_new /\ attrs2 = attrs_new
    /\ last_set = <<>> /\ ncalls = <<0, 0>>
    /\ wire \in RawWires /\ wire2 = <<>>
    /\ \E d \in {-10, -2, -1, 0, 1} : declared = BLen(wire) + d /\ declared >= 0
    /\ rd = NoReader /\ apc = "serialized" /\ dres = DecBase

NextReader == NewReader \/ DecodeStep

SpecReader == InitReader /\ [][NextReader]_vars

----------------------------------------------------------------------------
(* The buffers the receive step is given *)

\* bytes of attribute data that follow the fixed parts of the largest message
MaxTrail == 4

FullLen == size_of_nlmsghdr + size_of_nlmsgerr + MaxTrail

DeclLens == {0, 15, 16, 19, 20, 24, 35, 36, FullLen, FullLen + 4}

BufLens == {0, 15, 16, 20, 24, 36, FullLen}

MsgTypes == {0, NLMSG_NOOP, NLMSG_ERROR, NLMSG_DONE, 4, 15, 16,
             256 * NFNL_SUBSYS_NFTABLES, 256 * NFNL_SUBSYS_NFTABLES + 6,
             256 * (NFNL_SUBSYS_NFTABLES + 1)}

MsgFlags == {0, 1, NLM_F_DUMP_INTR, NLM_F_DUMP_INTR + 5}

\* the 4 bytes after the header: nlmsgerr.error, or Nfgenmsg {family, version, res_id}
FirstWords == {0, 1, -1, 2, -2, 258, I32_MAX, I32_MIN}

\* the header of the request an error message answers (nlmsgerr.msg)
OrigHdr == le32(20) \o le16(256 * NFNL_SUBSYS_NFTABLES + 6) \o le16(5) \o le32(7) \o le32(0)

Trail == [i \in 1..MaxTrail |-> i]

mk_buf(len, type, flags, word, buflen) ==
    Take(le32(len) \o le16(type) \o le16(flags) \o le32(3) \o le32(0)
           \o le32(word) \o OrigHdr \o Trail,
         buflen)

----------------------------------------------------------------------------
(* The receive step *)

InitParse ==
    /\ overflow_checks \in BOOLEAN
    /\ \E len \in DeclLens, type \in MsgTypes, flags \in MsgFlags,
          word \in FirstWords, buflen \in BufLens :
            buf = mk_buf(len, type, flags, word, buflen)
    /\ nlpc = "recv"
    /\ nlres = ParseBase
    /\ CodecIdle /\ RuleIdle /\ BatchIdle /\ RecvIdle

ParseNlmsg ==
    /\ nlpc = "recv"
    /\ nlres' = parse_nlmsg(buf)
    /\ nlpc' = "parsed"
    /\ UNCHANGED <<overflow_checks, buf>>
    /\ UNCHANGED avars
    /\ UNCHANGED <<rvars, bvars, pvars>>

NextParse == ParseNlmsg

SpecParse == InitParse /\ [][NextParse]_vars

----------------------------------------------------------------------------
(* Properties of parse_nlmsg *)

\* what the input buffer says, read off the bytes
HasHdr == Len(buf) >= 16
InLen == u32_at(buf, 0)
InType == u16_at(buf, 4)
InFlags == u16_at(buf, 6)
InSubsys == InType \div 256
DumpIntr == (InFlags \div 16) % 2 = 1
LengthValid == HasHdr /\ InLen >= 16 /\ InLen <= Len(buf)
InError == i32_at(buf, 16)

\* an error and nothing else: no header, no message, no payload
OnlyErr(e, a) ==
    /\ nlres.tag = "Err" /\ nlres.err = e /\ nlres.arg = a
    /\ nlres.hdr = NoHdr /\ nlres.msg = "None" /\ nlres.raw_value = <<>>
    /\ nlres.nfgenmsg = NoGen

OkMsg(m) == nlres.tag = "Ok" /\ nlres.msg = m /\ nlres.hdr = read_nlmsghdr(buf, 0)

C3_DumpIntr ==
    (nlpc = "parsed" /\ HasHdr /\ DumpIntr) =>
        /\ (LengthValid => OnlyErr("ConcurrentGenerationUpdate", -1))
        /\ (~LengthValid => OnlyErr("NlMsgTooSmall", -1))

\* C3 as first stated: whatever the declared length is
C3_DumpIntr_AnyLength ==
    (nlpc = "parsed" /\ HasHdr /\ DumpIntr) =>
        OnlyErr("ConcurrentGenerationUpdate", -1)

C3_Witness ==
    /\ nlpc = "parsed" /\ LengthValid /\ DumpIntr
    /\ InType = NLMSG_ERROR /\ InLen < 36
    /\ nlres.err = "ConcurrentGenerationUpdate"

\* what C4 says of a message, given whether it is in the claim's scope
C4_Body ==
    /\ (InSubsys # NFNL_SUBSYS_NFTABLES => OnlyErr("InvalidSubsystem", InSubsys))
    /\ (InSubsys = NFNL_SUBSYS_NFTABLES /\ InLen >= 20 /\ buf[18] # 0
           => OnlyErr("InvalidVersion", buf[18]))
    /\ (nlres.msg = "NfGenMsg" <=>
           (InSubsys = NFNL_SUBSYS_NFTABLES /\ InLen >= 20 /\ buf[18] = 0))
    /\ (nlres.msg = "NfGenMsg" =>
           /\ nlres.tag = "Ok"
           /\ nlres.nfgenmsg.family = buf[17] /\ nlres.nfgenmsg.version = 0
           /\ nlres.raw_value = SubSeq(buf, 21, InLen))

\* C4 (as amended): for every length-valid message without the dump-interrupted flag
\* and with type >= NLMSG_MIN_TYPE, parse_nlmsg returns InvalidSubsystem(s) when the
\* high byte s of the type is not the nftables id, InvalidVersion(v) when it is and
\* the Nfgenmsg version v is not 0, and NfGenMsg(family, version 0, payload) only
\* when both checks pass.
C4_SubsysVersion ==
    /\ (nlpc = "parsed" /\ LengthValid /\ ~DumpIntr /\ InType >= NLMSG_MIN_TYPE) => C4_Body
    /\ (nlpc = "parsed" /\ nlres.msg = "NfGenMsg") =>
           (InType >= NLMSG_MIN_TYPE /\ InSubsys = NFNL_SUBSYS_NFTABLES /\ buf[18] = 0)

\* C4 as first stated: for every length-valid message, whatever its flags
C4_SubsysVersion_AnyFlags ==
    (nlpc = "parsed" /\ LengthValid /\ InType >= NLMSG_MIN_TYPE) => C4_Body

C4_Witness ==
    /\ nlpc = "parsed" /\ LengthValid /\ ~DumpIntr /\ InType >= NLMSG_MIN_TYPE
    /\ nlres.err = "InvalidVersion" /\ nlres.arg = 1

----------------------------------------------------------------------------
(* Properties of the attribute codec *)

Ceil4(x) == 4 * ((x + 3) \div 4)

Keys == DOMAIN attrs.m

\* the bytes the attributes with a key below k should occupy
RECURSIVE SpaceOf(_)
SpaceOf(ks) ==
    IF ks = {} THEN 0
    ELSE LET k == CHOOSE x \in ks : TRUE IN
         Ceil4(4 + get_size(attrs.m[k])) + SpaceOf(ks \ {k})

OffsetOf(k) == SpaceOf({j \in Keys : j < k})

\* the space of the n attributes with the smallest keys
SpaceOfFirst(n) ==
    SpaceOf({k \in Keys : Cardinality({j \in Keys : j < k}) < n})

\* the types of the attribute headers found in b from offset pos on
RECURSIVE WireTypes(_, _)
WireTypes(b, pos) ==
    IF pos + 4 > BLen(b) THEN <<>>
    ELSE <<bu16_at(b, pos + 2)>> \o WireTypes(b, pos + Ceil4(bu16_at(b, pos)))

Ascending(s) == \A i \in 1..(Len(s) - 1) : s[i] < s[i + 1]

\* C6: for every attribute of the set, whatever its variant and payload size,
\* write_attribute writes an nla_len equal to 4 plus the payload size of get_size.
C6_NlaLen ==
    apc = "serialized" =>
        \A k \in Keys : bu16_at(wire, OffsetOf(k)) = 4 + get_size(attrs.m[k])

\* C7: for every payload length n the padded size is the least multiple of 4 that is
\* >= 4 + n and padding is idempotent; an encoded attribute occupies that many bytes,
\* the next one starts right after it; the reader advances by the same size for each
\* attribute it decodes.
C7_Padding ==
    /\ \A k \in Keys :
          LET x == 4 + get_size(attrs.m[k])
              p == pad_netlink_object_with_variable_size(x)
          IN  /\ p % 4 = 0 /\ p >= x /\ p < x + 4
              /\ pad_netlink_object_with_variable_size(p) = p
    /\ apc = "serialized" =>
          /\ BLen(wire) = SpaceOf(Keys)
          /\ \A k \in Keys : bu16_at(wire, OffsetOf(k) + 2) = k
    /\ apc \in {"reading", "done"} => rd.pos = SpaceOfFirst(rd.count)

\* C8: decoding the bytes serialize produced, with the remaining size set to the
\* number of bytes written, yields a set equal to the original one (stated for the
\* sets whose payloads fit the 16-bit nla_len).
C8_RoundTrip ==
    (apc = "done" /\ \A k \in Keys : 4 + get_size(attrs.m[k]) < U16_MOD) =>
        /\ dres.tag = "Ok"
        /\ dres.attrs.m = attrs.m

AttrErrors == {"UnsupportedAttributeType", "Custom", "StringDecodeFailure",
               "InvalidProtocolFamily"}

\* walking `rem` bytes of b from pos: a header that does not fit, or an nla_len
\* below 4 or beyond the bytes that remain
RECURSIVE Defect(_, _, _)
Defect(b, pos, rem) ==
    IF rem = 0 THEN FALSE
    ELSE IF rem < 4 THEN TRUE
    ELSE LET l == bu16_at(b, pos) IN
         IF l < 4 \/ l > rem THEN TRUE
         ELSE IF Ceil4(l) >= rem THEN FALSE
         ELSE Defect(b, pos + Ceil4(l), rem - Ceil4(l))

\* C9: the reader fails with BufTooSmall, without panicking and without returning an
\* attribute, when fewer bytes remain than a header requires, when an nla_len exceeds
\* the bytes remaining or is below 4, and at construction when the buffer is shorter
\* than the declared remaining size.
C9_BufTooSmall ==
    apc = "done" =>
        /\ dres.tag \notin {"Panic", "Fault"}
        /\ (BLen(wire) < declared => dres = DecErr("BufTooSmall", -1))
        /\ (BLen(wire) >= declared /\ Defect(wire, 0, declared)
              /\ ~(dres.tag = "Err" /\ dres.err \in AttrErrors)
              => dres = DecErr("BufTooSmall", -1))

\* C10: a set holds at most one attribute per type, set_attr on a type already
\* present replaces its value, get_attr returns the last value set, serialize writes
\* the attributes in strictly ascending type order, and two sets that compare equal
\* serialize to the same bytes whatever the order of the set_attr calls was.
C10_SetOrder ==
    /\ Len(attrs.order) = Cardinality(Keys)
    /\ {attrs.order[i] : i \in 1..Len(attrs.order)} = Keys
    /\ Keys = DOMAIN last_set
    /\ \A ty \in 0..8 :
          get_attr(attrs, ty) = IF ty \in DOMAIN last_set THEN last_set[ty] ELSE NoAtt
    /\ apc = "serialized" =>
          /\ Ascending(WireTypes(wire, 0))
          /\ {WireTypes(wire, 0)[i] : i \in 1..Len(WireTypes(wire, 0))} = Keys
          /\ Len(WireTypes(wire, 0)) = Cardinality(Keys)
          /\ (attrs.m = attrs2.m => wire = wire2)

C10_Witness ==
    /\ apc = "serialized"
    /\ attrs.m = attrs2.m /\ attrs.order # attrs2.order
    /\ Cardinality(Keys) = 2 /\ ncalls[1] = 3

----------------------------------------------------------------------------
(* Properties of decode: error propagation *)

\* The first attribute of the `rem` declared bytes of b, from pos on, that the object's
\* decode_attribute rejects, every attribute before it being well formed (a whole
\* header, an nla_len of at least 4 that stays within the declared bytes): k is its
\* rank, counted from 1.
RECURSIVE FirstRejected(_, _, _, _)
FirstRejected(b, pos, rem, k) ==
    LET none == [found |-> FALSE, k |-> 0, err |-> "", arg |-> -1] IN
    IF rem <= 4 \/ pos + 4 > BLen(b) THEN none
    ELSE LET l == bu16_at(b, pos)
             d == decode_attribute(BitAnd(bu16_at(b, pos + 2), NLA_TYPE_MASK),
                                   BSlice(b, pos + 4, pos + l))
         IN  IF l < 4 \/ l > rem \/ pos + l > BLen(b) THEN none
             ELSE IF ~d.ok THEN [found |-> TRUE, k |-> k, err |-> d.err, arg |-> d.arg]
             ELSE IF Ceil4(l) > rem THEN none
             ELSE FirstRejected(b, pos + Ceil4(l), rem - Ceil4(l), k + 1)

\* C11: when decode_attribute rejects attribute k of a message, decode returns that
\* error and no attribute set: the k-1 attributes decoded before it are not returned.
C11_ErrorDiscardsPartial ==
    LET f == FirstRejected(wire, 0, declared, 1) IN
    (apc = "done" /\ BLen(wire) >= declared /\ f.found) =>
        /\ dres.tag = "Err" /\ dres.err = f.err /\ dres.arg = f.arg
        /\ dres.attrs = attrs_new
        /\ rd.count = f.k - 1

C11_Witness ==
    /\ apc = "done" /\ dres.tag = "Err" /\ dres.err \in AttrErrors
    /\ FirstRejected(wire, 0, declared, 1).k = 2
    /\ rd.attrs.m # <<>> /\ dres.attrs = attrs_new

----------------------------------------------------------------------------
(* Rules (src/src/rule.rs).  The nftnl_rule object behind a Rule is a record:
   `set` names the u64 attributes that were set, handle and position hold their
   values, family, table and chain_name are the attributes Rule::new sets, userdata
   is <<>> or holds the string that was set, exprs is the list of its expressions. *)

NFT_MSG_NEWRULE == 6
NFT_MSG_DELRULE == 8
NLM_F_ACK == 4
NLM_F_EXCL == 512
NLM_F_CREATE == 1024
NLM_F_APPEND == 2048

BitOr(x, y) == x + y - BitAnd(x, y)

\* Table::new and Chain::new: a chain is identified by its name and its table
Table(name, family) == [name |-> name, family |-> family]
Chain(name, table) == [name |-> name, table |-> table]

\* Chain::get_table and Table::get_family
get_table(chain) == chain.table
get_family(table) == table.family

\* Table::get_name and Chain::get_name
get_name(x) == x.name

\* nftnl_rule_alloc: no attribute set, no expression (chain is the field of the Rule)
nftnl_rule_alloc ==
    [chain |-> <<>>, set |-> {}, handle |-> 0, position |-> 0, exprs |-> <<>>,
     family |-> 0, table |-> "", chain_name |-> "", userdata |-> <<>>]

nftnl_rule_set_u32(r, attr, v) == [r EXCEPT !.family = v]

nftnl_rule_set_str(r, attr, v) ==
    CASE attr = "TABLE" -> [r EXCEPT !.table = v]
      [] attr = "CHAIN" -> [r EXCEPT !.chain_name = v]
      [] attr = "USERDATA" -> [r EXCEPT !.userdata = <<v>>]

\* Rule::new
rule_new(chain) ==
    LET rule == nftnl_rule_set_str(
                    nftnl_rule_set_str(
                        nftnl_rule_set_u32(nftnl_rule_alloc, "FAMILY",
                                           get_family(get_table(chain))),
                        "TABLE", get_name(get_table(chain))),
                    "CHAIN", get_name(chain))
    IN  [rule EXCEPT !.chain = chain]

\* mutant: the string is stored as the chain name of the rule
set_userdata_as_chain(r, data) == nftnl_rule_set_str(r, "CHAIN", data)

\* Rule::set_userdata
set_userdata(r, data) == nftnl_rule_set_str(r, "USERDATA", data)

nftnl_rule_is_set(r, attr) == attr \in r.set

nftnl_rule_get_u64(r, attr) ==
    IF attr \notin r.set THEN 0
    ELSE IF attr = "HANDLE" THEN r.handle ELSE r.position

nftnl_rule_set_u64(r, attr, v) ==
    IF attr = "HANDLE" THEN [r EXCEPT !.set = @ \cup {attr}, !.handle = v]
    ELSE [r EXCEPT !.set = @ \cup {attr}, !.position = v]

get_position(r) == nftnl_rule_get_u64(r, "POSITION")
set_position(r, position) == nftnl_rule_set_u64(r, "POSITION", position)
get_handle(r) == nftnl_rule_get_u64(r, "HANDLE")
set_handle(r, handle) == nftnl_rule_set_u64(r, "HANDLE", handle)
get_chain(r) == r.chain

\* mutant: the expression is put at the head of the list
nftnl_rule_add_expr_head(r, e) == [r EXCEPT !.exprs = <<e>> \o @]

\* nftnl_rule_add_expr: the expression is linked at the tail of the list of the rule
nftnl_rule_add_expr(r, e) == [r EXCEPT !.exprs = Append(@, e)]

\* Rule::add_expr
add_expr(r, expr) == nftnl_rule_add_expr(r, expr)

\* An expression: its kind, an argument (a key, an operator, a header field) and data
Expr(kind, arg, data) == [kind |-> kind, arg |-> arg, data |-> data]

\* nftnl_expr_snprintf: the text of the expression, cut to the size of the buffer
nftnl_expr_snprintf(e, size) == Take(<<e.kind, e.arg>> \o e.data, size)

\* mutant: two rules of equal chains whose set handles and positions agree are equal
rule_eq_content(a, b) ==
    IF get_chain(a) # get_chain(b) THEN FALSE
    ELSE IF nftnl_rule_is_set(a, "HANDLE") /\ nftnl_rule_is_set(b, "HANDLE")
            /\ get_handle(a) # get_handle(b) THEN FALSE
    ELSE IF nftnl_rule_is_set(a, "POSITION") /\ nftnl_rule_is_set(b, "POSITION")
            /\ get_position(a) # get_position(b) THEN FALSE
    ELSE TRUE

\* impl PartialEq for Rule
rule_eq(a, b) ==
    IF get_chain(a) # get_chain(b) THEN FALSE
    ELSE IF nftnl_rule_is_set(a, "HANDLE") /\ nftnl_rule_is_set(b, "HANDLE")
            /\ get_handle(a) # get_handle(b) THEN FALSE
    ELSE IF nftnl_rule_is_set(a, "POSITION") /\ nftnl_rule_is_set(b, "POSITION")
            /\ get_position(a) # get_position(b) THEN FALSE
    ELSE FALSE

\* nftnl_expr_iter_next on an iterator that has passed i expressions of r: the next
\* expression, or null at the end of the list
nftnl_expr_iter_next(r, i) ==
    IF i < Len(r.exprs) THEN [null |-> FALSE, expr |-> r.exprs[i + 1]]
    ELSE [null |-> TRUE, expr |-> Expr("", "", <<>>)]

\* the loop of deep_eq, both iterators having passed i expressions
RECURSIVE deep_eq_loop(_, _, _)
deep_eq_loop(a, b, i) ==
    LET self_next == nftnl_expr_iter_next(a, i)
        other_next == nftnl_expr_iter_next(b, i)
    IN  IF self_next.null /\ other_next.null THEN TRUE
        ELSE IF self_next.null \/ other_next.null THEN FALSE
        ELSE IF nftnl_expr_snprintf(self_next.expr, 255)
                   # nftnl_expr_snprintf(other_next.expr, 255) THEN FALSE
        ELSE deep_eq_loop(a, b, i + 1)

\* Rule::deep_eq
deep_eq(a, b) == IF ~rule_eq(a, b) THEN FALSE ELSE deep_eq_loop(a, b, 0)

\* nftnl_nlmsg_build_hdr: type is subsystem << 8 | opcode
nftnl_nlmsg_build_hdr(type, family, flags, seq) ==
    [nlmsg_type |-> 256 * NFNL_SUBSYS_NFTABLES + type, nlmsg_flags |-> flags,
     nlmsg_seq |-> seq, family |-> family]

\* mutant: a deletion asks for no acknowledgement
rule_write_del_no_ack(r, seq, msg_type) ==
    LET type_ == IF msg_type = "Add" THEN NFT_MSG_NEWRULE ELSE NFT_MSG_DELRULE
        flags == IF msg_type = "Add"
                 THEN BitOr(BitOr(BitOr(NLM_F_CREATE, NLM_F_APPEND), NLM_F_EXCL), NLM_F_ACK)
                 ELSE 0
    IN  nftnl_nlmsg_build_hdr(type_, get_family(get_table(r.chain)), flags, seq)

\* impl NlMsg for Rule :: write
rule_write(r, seq, msg_type) ==
    LET type_ == IF msg_type = "Add" THEN NFT_MSG_NEWRULE ELSE NFT_MSG_DELRULE
        flags == BitOr(IF msg_type = "Add"
                       THEN BitOr(BitOr(NLM_F_CREATE, NLM_F_APPEND), NLM_F_EXCL)
                       ELSE 0,
                       NLM_F_ACK)
    IN  nftnl_nlmsg_build_hdr(type_, get_family(get_table(r.chain)), flags, seq)

----------------------------------------------------------------------------
(* Building, comparing, writing and iterating rules *)

\* the number of expressions added to a rule with add_expr
MaxExprs == 2

Chains ==
    {Chain("in", Table("filter", 1)), Chain("out", Table("filter", 1)),
     Chain("in", Table("filter", 2))}

ExprValues == {Expr("meta", "l4proto", <<>>), Expr("cmp", "eq", <<6>>)}

\* the lists of expressions of the second rule
ExprLists2 ==
    {<<>>, <<Expr("meta", "l4proto", <<>>)>>,
     <<Expr("meta", "l4proto", <<>>), Expr("cmp", "eq", <<6>>)>>,
     <<Expr("cmp", "eq", <<6>>), Expr("meta", "l4proto", <<>>)>>}

RECURSIVE add_exprs(_, _)
add_exprs(r, es) == IF es = <<>> THEN r ELSE add_exprs(add_expr(r, Head(es)), Tail(es))

\* the second rule: a rule of some chain, with or without a handle and a position
Rules2 ==
    LET fresh == {add_exprs(rule_new(c), es) : c \in Chains, es \in ExprLists2}
        withH == fresh \cup {set_handle(r, 1) : r \in fresh}
    IN  withH \cup {set_position(r, 1) : r \in withH}

SetHandle ==
    /\ rpc = "build"
    /\ \E handle \in {1, 2} : rules' = [rules EXCEPT ![1] = set_handle(@, handle)]
    /\ UNCHANGED <<added, rpc, eqres, nlhdr_out, bcall, iter, seen>>
    /\ UNCHANGED <<overflow_checks, nlvars, avars, bvars, pvars>>

SetPosition ==
    /\ rpc = "build"
    /\ \E position \in {1, 2} : rules' = [rules EXCEPT ![1] = set_position(@, position)]
    /\ UNCHANGED <<added, rpc, eqres, nlhdr_out, bcall, iter, seen>>
    /\ UNCHANGED <<overflow_checks, nlvars, avars, bvars, pvars>>

AddExpr ==
    /\ rpc = "build" /\ Len(added) < MaxExprs
    /\ \E expr \in ExprValues :
          /\ rules' = [rules EXCEPT ![1] = add_expr(@, expr)]
          /\ added' = Append(added, expr)
    /\ UNCHANGED <<rpc, eqres, nlhdr_out, bcall, iter, seen>>
    /\ UNCHANGED <<overflow_checks, nlvars, avars, bvars, pvars>>

\* rules[1] == rules[2], rules[1] == rules[1] and the same with deep_eq
Compare ==
    /\ rpc = "build"
    /\ eqres' = [eq12 |-> rule_eq(rules[1], rules[2]),
                 eq11 |-> rule_eq(rules[1], rules[1]),
                 deep12 |-> deep_eq(rules[1], rules[2]),
                 deep11 |-> deep_eq(rules[1], rules[1])]
    /\ rpc' = "compared"
    /\ UNCHANGED <<rules, added, nlhdr_out, bcall, iter, seen>>
    /\ UNCHANGED <<overflow_checks, nlvars, avars, bvars, pvars>>

\* rules[1].write(buf, seq, msg_type)
WriteRule ==
    /\ rpc = "build"
    /\ \E seq \in {1, 5}, msg_type \in {"Add", "Del"} :
          /\ nlhdr_out' = rule_write(rules[1], seq, msg_type)
          /\ bcall' = [op |-> "write", seq |-> seq, msg_type |-> msg_type]
    /\ rpc' = "written"
    /\ UNCHANGED <<rules, added, eqres, iter, seen>>
    /\ UNCHANGED <<overflow_checks, nlvars, avars, bvars, pvars>>

\* rules[1].get_exprs(): RuleExprsIter::new
GetExprs ==
    /\ rpc = "build"
    /\ iter' = 0 /\ seen' = <<>>
    /\ rpc' = "iter"
    /\ UNCHANGED <<rules, added, eqres, nlhdr_out, bcall>>
    /\ UNCHANGED <<overflow_checks, nlvars, avars, bvars, pvars>>

\* RuleExprsIter::next
IterNext ==
    /\ rpc = "iter"
    /\ LET next == nftnl_expr_iter_next(rules[1], iter) IN
          IF next.null
          THEN rpc' = "iterdone" /\ UNCHANGED <<iter, seen>>
          ELSE rpc' = rpc /\ iter' = iter + 1 /\ seen' = Append(seen, next.expr)
    /\ UNCHANGED <<rules, added, eqres, nlhdr_out, bcall>>
    /\ UNCHANGED <<overflow_checks, nlvars, avars, bvars, pvars>>

InitRule ==
    /\ overflow_checks = FALSE
    /\ ParseIdle /\ CodecIdle /\ BatchIdle /\ RecvIdle
    /\ \E c \in Chains, r2 \in Rules2 : rules = <<rule_new(c), r2>>
    /\ added = <<>> /\ rpc = "build" /\ eqres = <<>>
    /\ nlhdr_out = <<>> /\ bcall = <<>> /\ iter = 0 /\ seen = <<>>

NextRule ==
    SetHandle \/ SetPosition \/ AddExpr \/ Compare \/ WriteRule \/ GetExprs \/ IterNext

SpecRule == InitRule /\ [][NextRule]_vars

----------------------------------------------------------------------------
(* Properties of rules *)

BothSet(attr) ==
    nftnl_rule_is_set(rules[1], attr) /\ nftnl_rule_is_set(rules[2], attr)

\* the two rules have as many expressions, whose texts agree pairwise in order
ExprsAgree ==
    /\ Len(rules[1].exprs) = Len(rules[2].exprs)
    /\ \A i \in 1..Len(rules[1].exprs) :
          nftnl_expr_snprintf(rules[1].exprs[i], 255)
              = nftnl_expr_snprintf(rules[2].exprs[i], 255)

\* C12: two rules whose chains differ are unequal, and == returns false whenever the
\* handle or the position is unset on either side, even for rules of identical content.
C12_EqFalseWhenUnset ==
    rpc = "compared" =>
        /\ (rules[1].chain # rules[2].chain => ~eqres.eq12)
        /\ (~(BothSet("HANDLE") /\ BothSet("POSITION")) => ~eqres.eq12)
        /\ (rules[1].set # {"HANDLE", "POSITION"} => ~eqres.eq11)

C12_Witness ==
    /\ rpc = "compared" /\ rules[1] = rules[2]
    /\ rules[1].set = {} /\ Len(rules[1].exprs) = 2
    /\ ~eqres.eq12

\* C13: == returns true for two rules of equal chains that both have their handle and
\* their position set, to equal values; a rule with both set is equal to itself.
C13_EqWhenSet ==
    rpc = "compared" =>
        /\ (/\ rules[1].chain = rules[2].chain
            /\ BothSet("HANDLE") /\ BothSet("POSITION")
            /\ get_handle(rules[1]) = get_handle(rules[2])
            /\ get_position(rules[1]) = get_position(rules[2])
            => eqres.eq12)
        /\ (rules[1].set = {"HANDLE", "POSITION"} => eqres.eq11)

\* C14: for two rules that the documented default equality holds equal (equal chains,
\* handle and position set to equal values on both), deep_eq returns true exactly when
\* the rules have as many expressions whose texts agree pairwise in order.
C14_DeepEq ==
    (/\ rpc = "compared"
     /\ rules[1].chain = rules[2].chain
     /\ BothSet("HANDLE") /\ BothSet("POSITION")
     /\ get_handle(rules[1]) = get_handle(rules[2])
     /\ get_position(rules[1]) = get_position(rules[2]))
    => (eqres.deep12 <=> ExprsAgree)

\* C15: the expression list of a rule is the expressions handed to add_expr, in call
\* order, and get_exprs returns them first-added first and then ends.
C15_ExprOrder ==
    rpc \in {"build", "compared", "written", "iter", "iterdone"} =>
        /\ rules[1].exprs = added
        /\ (rpc \in {"iter", "iterdone"} => seen = SubSeq(added, 1, iter))
        /\ (rpc = "iterdone" => seen = added)

C15_Witness ==
    /\ rpc = "iterdone" /\ Len(seen) = 2 /\ seen[1] # seen[2]
    /\ seen = added

\* C16: the header Rule::write builds has opcode NFT_MSG_NEWRULE and flags
\* CREATE|APPEND|EXCL|ACK for Add, opcode NFT_MSG_DELRULE and flags ACK for Del, and
\* carries the sequence number it was given and the family of the table of the chain.
C16_WriteHeader ==
    rpc = "written" =>
        /\ get_subsystem_from_nlmsghdr_type(nlhdr_out.nlmsg_type) = NFNL_SUBSYS_NFTABLES
        /\ (bcall.msg_type = "Add" =>
              /\ get_operation_from_nlmsghdr_type(nlhdr_out.nlmsg_type) = NFT_MSG_NEWRULE
              /\ nlhdr_out.nlmsg_flags
                    = NLM_F_CREATE + NLM_F_APPEND + NLM_F_EXCL + NLM_F_ACK)
        /\ (bcall.msg_type = "Del" =>
              /\ get_operation_from_nlmsghdr_type(nlhdr_out.nlmsg_type) = NFT_MSG_DELRULE
              /\ nlhdr_out.nlmsg_flags = NLM_F_ACK)
        /\ nlhdr_out.nlmsg_seq = bcall.seq
        /\ nlhdr_out.family = rules[1].chain.table.family

C16_Witness ==
    /\ rpc = "written" /\ bcall.msg_type = "Del" /\ bcall.seq = 5
    /\ nlhdr_out.family = 2 /\ nlhdr_out.nlmsg_flags = NLM_F_ACK

----------------------------------------------------------------------------
(* The rule builders of src/src/rule_methods.rs *)

IPPROTO_TCP == 6
IPPROTO_UDP == 17
IFNAMSIZ == 16

\* Meta::new, Cmp::new and HighLevelPayload::Transport(..).build()
Meta(key) == Expr("meta", key, <<>>)
Cmp(op, data) == Expr("cmp", op, data)
TransportPayload(proto, field) == Expr("payload", <<"transport", proto, field>>, <<>>)

\* u16::to_be_bytes
to_be_bytes(port) == <<(port \div 256) % 256, port % 256>>

\* Rule::protocol
rule_protocol(r, protocol) ==
    add_expr(add_expr(r, Meta("L4Proto")),
             Cmp("Eq", <<IF protocol = "TCP" THEN IPPROTO_TCP ELSE IPPROTO_UDP>>))

\* Rule::match_port
match_port(r, port, protocol, source) ==
    LET r1 == rule_protocol(r, protocol)
        r2 == add_expr(r1, TransportPayload(IF protocol = "TCP" THEN "Tcp" ELSE "Udp",
                                            IF source THEN "Sport" ELSE "Dport"))
    IN  add_expr(r2, Cmp("Eq", to_be_bytes(port)))

\* Rule::sport
rule_sport(r, port, protocol) == match_port(r, port, protocol, FALSE)

\* Rule::dport
rule_dport(r, port, protocol) == match_port(r, port, protocol, FALSE)

\* mutant: a name of IFNAMSIZ bytes is let through
rule_iface_one_more(r, iface_name) ==
    IF Len(iface_name) > IFNAMSIZ
    THEN [ok |-> FALSE, err |-> "InterfaceNameTooLong", rule |-> r]
    ELSE LET iface_vec == Append(iface_name, 0) IN
         [ok |-> TRUE, err |-> "",
          rule |-> add_expr(add_expr(r, Meta("IifName")), Cmp("Eq", iface_vec))]

\* Rule::iface
rule_iface(r, iface_name) ==
    IF Len(iface_name) >= IFNAMSIZ
    THEN [ok |-> FALSE, err |-> "InterfaceNameTooLong", rule |-> r]
    ELSE LET iface_vec == Append(iface_name, 0) IN
         [ok |-> TRUE, err |-> "",
          rule |-> add_expr(add_expr(r, Meta("IifName")), Cmp("Eq", iface_vec))]

\* Rule::oface
rule_oface(r, oface_name) ==
    IF Len(oface_name) >= IFNAMSIZ
    THEN [ok |-> FALSE, err |-> "InterfaceNameTooLong", rule |-> r]
    ELSE LET oface_vec == Append(oface_name, 0) IN
         [ok |-> TRUE, err |-> "",
          rule |-> add_expr(add_expr(r, Meta("OifName")), Cmp("Eq", oface_vec))]

\* libc::NFPROTO_IPV4, NFPROTO_IPV6
NFPROTO_IPV4 == 2
NFPROTO_IPV6 == 10

\* HighLevelPayload::Network(..).build()
NetworkPayload(version, field) == Expr("payload", <<"network", version, field>>, <<>>)

\* An IpAddr is [v, octets]; an IpNetwork is [v, octets, prefix]
IpV4(octets) == [v |-> 4, octets |-> octets]
IpV6(octets) == [v |-> 6, octets |-> octets]
IpNet(ip, prefix) == [v |-> ip.v, octets |-> ip.octets, prefix |-> prefix]

\* the byte of a mask of prefix bits that covers the bits 8 * (i - 1) .. 8 * i - 1
mask_byte(prefix, i) ==
    IF prefix >= 8 * i THEN 255
    ELSE IF prefix <= 8 * (i - 1) THEN 0
    ELSE 256 - 2 ^ (8 * i - prefix)

\* IpNetwork::mask and IpNetwork::network
net_mask(net) ==
    [v |-> net.v, octets |-> [i \in 1..Len(net.octets) |-> mask_byte(net.prefix, i)]]

net_network(net) ==
    [v |-> net.v,
     octets |-> [i \in 1..Len(net.octets) |->
                    BitAnd(net.octets[i], mask_byte(net.prefix, i))]]

\* data_type::ip_to_vec: the octets of the address, 4 or 16
ip_to_vec(ip) == ip.octets

\* Bitwise::new(mask, xor)
Bitwise_new(mask, xor) ==
    IF Len(mask) # Len(xor)
    THEN [ok |-> FALSE, err |-> "InvalidMaskLength", expr |-> Expr("", "", <<>>)]
    ELSE [ok |-> TRUE, err |-> "", expr |-> Expr("bitwise", mask, xor)]

\* mutant: the xor of an IPv6 network is the 4 bytes of 0u32
zero_xor_u32(net) == [i \in 1..4 |-> 0]

\* 0u32.to_be_bytes() for a V4 network, 0u128.to_be_bytes() for a V6 network
zero_xor(net) == [i \in 1..(IF net.v = 4 THEN 4 ELSE 16) |-> 0]

\* Rule::match_network; on an error the rule is dropped
match_network(r, net, source) ==
    LET r1 == add_expr(r, Meta("NfProto"))
        r2 == add_expr(r1, Cmp("Eq", <<IF net.v = 4 THEN NFPROTO_IPV4 ELSE NFPROTO_IPV6>>))
        r3 == add_expr(r2, NetworkPayload(IF net.v = 4 THEN "IPv4" ELSE "IPv6",
                                          IF source THEN "Saddr" ELSE "Daddr"))
        bw == Bitwise_new(ip_to_vec(net_mask(net)), zero_xor(net))
    IN  IF ~bw.ok THEN [ok |-> FALSE, err |-> bw.err, rule |-> r3]
        ELSE [ok |-> TRUE, err |-> "",
              rule |-> add_expr(add_expr(r3, bw.expr),
                                Cmp("Eq", ip_to_vec(net_network(net))))]

\* Rule::snetwork
rule_snetwork(r, net) == match_network(r, net, TRUE)

\* Rule::dnetwork
rule_dnetwork(r, net) == match_network(r, net, FALSE)

\* Immediate::new_data(data, register)
Immediate_new_data(data, register) == Expr("immediate", register, data)

\* Nat { nat_type, family, ip_register, port_register }: an Option is <<>> or <<x>>
NatExpr(nat_type, family, ip_register, port_register) ==
    Expr("nat", [nat_type |-> nat_type, family |-> family,
                 ip_register |-> ip_register, port_register |-> port_register], <<>>)

\* Rule::dnat(dst, port), port an Option<u16>
rule_dnat(r, dst, port) ==
    LET r1 == add_expr(r, Immediate_new_data(ip_to_vec(dst), "Reg1"))
        r2 == IF port # <<>>
              THEN add_expr(r1, Immediate_new_data(to_be_bytes(port[1]), "Reg2"))
              ELSE r1
    IN  add_expr(r2, NatExpr(<<"DNat">>, <<"Ipv4">>, <<"Reg1">>,
                             IF port # <<>> THEN <<"Reg2">> ELSE <<>>))

\* the number of builder calls chained on one rule
MaxBuilderCalls == 2

Ports == {80, 443}

\* interface names, by their length in bytes
IfaceNames == {[i \in 1..n |-> 97] : n \in {0, 1, IFNAMSIZ - 1, IFNAMSIZ, IFNAMSIZ + 1}}

NoCall == [op |-> "none", port |-> 0, protocol |-> "", name |-> <<>>,
           net |-> <<>>, dst |-> <<>>, port_opt |-> <<>>, verdict |-> <<>>,
           before |-> <<>>, err |-> "", n |-> 0]

\* rules[1] = rules[1].sport(port, protocol) or .dport(port, protocol)
MatchPort ==
    /\ rpc = "build" /\ bcall.n < MaxBuilderCalls
    /\ \E op \in {"sport", "dport"}, port \in Ports, protocol \in {"TCP", "UDP"} :
          /\ rules' = [rules EXCEPT ![1] = IF op = "sport"
                                           THEN rule_sport(@, port, protocol)
                                           ELSE rule_dport(@, port, protocol)]
          /\ bcall' = [NoCall EXCEPT !.op = op, !.port = port, !.protocol = protocol,
                                     !.before = rules[1].exprs, !.n = bcall.n + 1]
    /\ UNCHANGED <<added, rpc, eqres, nlhdr_out, iter, seen>>
    /\ UNCHANGED <<overflow_checks, nlvars, avars, bvars, pvars>>

\* rules[1].iface(name): the rule it returns takes the place of rules[1]; on an error
\* the rule is dropped
Iface ==
    /\ rpc = "build" /\ bcall.n < MaxBuilderCalls
    /\ \E name \in IfaceNames :
          LET res == rule_iface(rules[1], name) IN
          /\ rules' = [rules EXCEPT ![1] = res.rule]
          /\ rpc' = IF res.ok THEN "build" ELSE "failed"
          /\ bcall' = [NoCall EXCEPT !.op = "iface", !.name = name, !.err = res.err,
                                     !.before = rules[1].exprs, !.n = bcall.n + 1]
    /\ UNCHANGED <<added, eqres, nlhdr_out, iter, seen>>
    /\ UNCHANGED <<overflow_checks, nlvars, avars, bvars, pvars>>

\* rules[1].oface(name)
Oface ==
    /\ rpc = "build" /\ bcall.n < MaxBuilderCalls
    /\ \E name \in IfaceNames :
          LET res == rule_oface(rules[1], name) IN
          /\ rules' = [rules EXCEPT ![1] = res.rule]
          /\ rpc' = IF res.ok THEN "build" ELSE "failed"
          /\ bcall' = [NoCall EXCEPT !.op = "oface", !.name = name, !.err = res.err,
                                     !.before = rules[1].exprs, !.n = bcall.n + 1]
    /\ UNCHANGED <<added, eqres, nlhdr_out, iter, seen>>
    /\ UNCHANGED <<overflow_checks, nlvars, avars, bvars, pvars>>

\* the networks handed to snetwork and dnetwork
Networks ==
    {IpNet(IpV4(<<10, 1, 0, 7>>), 24), IpNet(IpV4(<<10, 1, 37, 7>>), 20),
     IpNet(IpV4(<<192, 168, 1, 1>>), 32), IpNet(IpV4(<<10, 1, 0, 7>>), 0),
     IpNet(IpV6(<<253, 0, 0, 0, 0, 0, 0, 1, 255, 0, 0, 0, 0, 0, 0, 1>>), 64),
     IpNet(IpV6(<<253, 0, 0, 0, 0, 0, 0, 1, 255, 0, 0, 0, 0, 0, 0, 1>>), 71)}

\* rules[1].snetwork(net) or .dnetwork(net)
Network ==
    /\ rpc = "build" /\ bcall.n < MaxBuilderCalls
    /\ \E op \in {"snetwork", "dnetwork"}, net \in Networks :
          LET res == IF op = "snetwork" THEN rule_snetwork(rules[1], net)
                     ELSE rule_dnetwork(rules[1], net)
          IN
          /\ rules' = [rules EXCEPT ![1] = res.rule]
          /\ rpc' = IF res.ok THEN "build" ELSE "failed"
          /\ bcall' = [NoCall EXCEPT !.op = op, !.net = net, !.err = res.err,
                                     !.before = rules[1].exprs, !.n = bcall.n + 1]
    /\ UNCHANGED <<added, eqres, nlhdr_out, iter, seen>>
    /\ UNCHANGED <<overflow_checks, nlvars, avars, bvars, pvars>>

\* the addresses handed to dnat
DnatAddrs ==
    {IpV4(<<10, 0, 0, 1>>),
     IpV6(<<253, 0, 0, 0, 0, 0, 0, 0, 0, 0, 0, 0, 0, 0, 0, 1>>)}

\* rules[1] = rules[1].dnat(dst, port)
Dnat ==
    /\ rpc = "build" /\ bcall.n < MaxBuilderCalls
    /\ \E dst \in DnatAddrs, port \in {<<>>} \cup {<<p>> : p \in Ports} :
          /\ rules' = [rules EXCEPT ![1] = rule_dnat(@, dst, port)]
          /\ bcall' = [NoCall EXCEPT !.op = "dnat", !.dst = dst, !.port_opt = port,
                                     !.before = rules[1].exprs, !.n = bcall.n + 1]
    /\ UNCHANGED <<added, rpc, eqres, nlhdr_out, iter, seen>>
    /\ UNCHANGED <<overflow_checks, nlvars, avars, bvars, pvars>>

InitBuilder ==
    /\ overflow_checks = FALSE
    /\ ParseIdle /\ CodecIdle /\ BatchIdle /\ RecvIdle
    /\ \E c \in Chains : rules = <<rule_new(c), rule_new(c)>>
    /\ added = <<>> /\ rpc = "build" /\ eqres = <<>>
    /\ nlhdr_out = <<>> /\ bcall = NoCall /\ iter = 0 /\ seen = <<>>

NextBuilder == MatchPort \/ Iface \/ Oface \/ Network \/ Dnat

SpecBuilder == InitBuilder /\ [][NextBuilder]_vars

----------------------------------------------------------------------------
(* Properties of the rule builders *)

\* the expressions the last call appended
Appended == SubSeq(rules[1].exprs, Len(bcall.before) + 1, Len(rules[1].exprs))

\* C17: sport appends Meta(L4Proto), Cmp(Eq, [protocol number]), a load of the source
\* port field of the TCP or UDP header and Cmp(Eq, port as 2 big-endian bytes), in that
\* order; dport does the same with the destination port field.
C17_PortMatch ==
    bcall.op \in {"sport", "dport"} =>
        /\ SubSeq(rules[1].exprs, 1, Len(bcall.before)) = bcall.before
        /\ Appended =
              <<Meta("L4Proto"),
                Cmp("Eq", <<IF bcall.protocol = "TCP" THEN 6 ELSE 17>>),
                TransportPayload(IF bcall.protocol = "TCP" THEN "Tcp" ELSE "Udp",
                                 IF bcall.op = "sport" THEN "Sport" ELSE "Dport"),
                Cmp("Eq", <<bcall.port \div 256, bcall.port % 256>>)>>

\* C18: iface and oface return InterfaceNameTooLong and add no expression when the
\* name is IFNAMSIZ bytes or longer; for a shorter name they append Meta(IifName)
\* (resp. Meta(OifName)) and Cmp(Eq, name followed by one NUL byte), an operand of at
\* most IFNAMSIZ bytes.
C18_IfaceName ==
    bcall.op \in {"iface", "oface"} =>
        /\ SubSeq(rules[1].exprs, 1, Len(bcall.before)) = bcall.before
        /\ IF Len(bcall.name) >= 16
           THEN /\ rpc = "failed" /\ bcall.err = "InterfaceNameTooLong"
                /\ rules[1].exprs = bcall.before
           ELSE /\ rpc = "build" /\ bcall.err = ""
                /\ Appended =
                      <<Meta(IF bcall.op = "iface" THEN "IifName" ELSE "OifName"),
                        Cmp("Eq", bcall.name \o <<0>>)>>
                /\ Len(Appended[2].data) <= 16

C18_Witness ==
    /\ bcall.op = "iface" /\ bcall.n = 2 /\ Len(bcall.name) = 15
    /\ Len(rules[1].exprs) = 4 /\ Len(rules[1].exprs[4].data) = 16

----------------------------------------------------------------------------
(* The batch builder: Empty -> Open -> Finalized.  msgs is the list of messages
   written so far, seq the next unused sequence number. *)

NoBatch == [state |-> "Empty", msgs |-> <<>>, seq |-> 0]

\* Batch::new: the batch-begin message takes sequence number 0
batch_new == [state |-> "Open", msgs |-> <<[kind |-> "begin", seq |-> 0]>>, seq |-> 1]

\* mutant: the sequence number is not advanced
batch_add_same_seq(b, obj, msg_type) ==
    IF b.state # "Open" THEN b
    ELSE [b EXCEPT !.msgs = Append(@, [kind |-> "object", obj |-> obj,
                                       msg_type |-> msg_type, seq |-> b.seq])]

\* mutant: add is accepted in every state
batch_add_any_state(b, obj, msg_type) ==
    [b EXCEPT !.msgs = Append(@, [kind |-> "object", obj |-> obj,
                                  msg_type |-> msg_type, seq |-> b.seq]),
              !.seq = @ + 1]

\* Batch::add: valid only in Open; the message takes the next unused sequence number
batch_add(b, obj, msg_type) ==
    IF b.state # "Open" THEN b
    ELSE [b EXCEPT !.msgs = Append(@, [kind |-> "object", obj |-> obj,
                                       msg_type |-> msg_type, seq |-> b.seq]),
                   !.seq = @ + 1]

\* Batch::finalize: the batch-end message is appended
batch_finalize(b) ==
    IF b.state # "Open" THEN b
    ELSE [state |-> "Finalized",
          msgs |-> Append(b.msgs, [kind |-> "end", seq |-> b.seq]),
          seq |-> b.seq + 1]

\* ChainMethods::add_to_batch: batch.add(&self, MsgType::Add)
add_to_batch(chain, b) == batch_add(b, chain, "Add")

\* the number of add calls made on one batch
MaxBatchAdds == 4

\* the objects added: a table, a chain, a rule
BatchObjects == {"table", "chain", "rule"}

BatchNew ==
    /\ batch.state = "Empty"
    /\ batch' = batch_new
    /\ batch_res' = "opened"
    /\ UNCHANGED batch_hist
    /\ UNCHANGED <<overflow_checks, nlvars, avars, rvars, pvars>>

BatchAdd ==
    /\ batch.state # "Empty" /\ Len(batch_hist) < MaxBatchAdds
    /\ \E obj \in BatchObjects, msg_type \in {"Add", "Del"} :
          /\ batch' = batch_add(batch, obj, msg_type)
          /\ batch_hist' = Append(batch_hist, [obj |-> obj, msg_type |-> msg_type,
                                               via |-> "add", state |-> batch.state])
    /\ batch_res' = IF batch' = batch THEN "rejected" ELSE "added"
    /\ UNCHANGED <<overflow_checks, nlvars, avars, rvars, pvars>>

\* chain.add_to_batch(&mut batch)
AddToBatch ==
    /\ batch.state # "Empty" /\ Len(batch_hist) < MaxBatchAdds
    /\ batch' = add_to_batch("chain", batch)
    /\ batch_hist' = Append(batch_hist, [obj |-> "chain", msg_type |-> "Add",
                                         via |-> "add_to_batch", state |-> batch.state])
    /\ batch_res' = IF batch' = batch THEN "rejected" ELSE "added"
    /\ UNCHANGED <<overflow_checks, nlvars, avars, rvars, pvars>>

BatchFinalize ==
    /\ batch.state = "Open"
    /\ batch' = batch_finalize(batch)
    /\ batch_res' = "finalized"
    /\ UNCHANGED batch_hist
    /\ UNCHANGED <<overflow_checks, nlvars, avars, rvars, pvars>>

InitBatch ==
    /\ overflow_checks = FALSE
    /\ ParseIdle /\ CodecIdle /\ RuleIdle /\ RecvIdle
    /\ batch = NoBatch /\ batch_hist = <<>> /\ batch_res = "idle"

NextBatch == BatchNew \/ BatchAdd \/ AddToBatch \/ BatchFinalize

SpecBatch == InitBatch /\ [][NextBatch]_vars

----------------------------------------------------------------------------
(* Properties of the batch builder *)

RECURSIVE SelectMsgs(_, _)
SelectMsgs(ms, kind) ==
    IF ms = <<>> THEN <<>>
    ELSE IF Head(ms).kind = kind THEN <<Head(ms)>> \o SelectMsgs(Tail(ms), kind)
    ELSE SelectMsgs(Tail(ms), kind)

\* the add calls made while the batch was open
RECURSIVE OpenAdds(_)
OpenAdds(h) ==
    IF h = <<>> THEN <<>>
    ELSE IF Head(h).state = "Open" THEN <<Head(h)>> \o OpenAdds(Tail(h))
    ELSE OpenAdds(Tail(h))

ObjectMsgs == SelectMsgs(batch.msgs, "object")

\* C19: the i-th object added to a batch, by add with Add or Del or by add_to_batch,
\* carries sequence number i; 0 is carried by the batch-begin message alone.
C19_SequenceNumbers ==
    batch.state # "Empty" =>
        /\ Len(ObjectMsgs) = Len(OpenAdds(batch_hist))
        /\ \A i \in 1..Len(ObjectMsgs) :
              /\ ObjectMsgs[i].seq = i
              /\ ObjectMsgs[i].obj = OpenAdds(batch_hist)[i].obj
              /\ ObjectMsgs[i].msg_type = OpenAdds(batch_hist)[i].msg_type
        /\ \A i \in 1..Len(batch.msgs) :
              batch.msgs[i].seq = 0 <=> (i = 1 /\ batch.msgs[i].kind = "begin")

C19_Witness ==
    /\ Len(ObjectMsgs) = 3
    /\ ObjectMsgs[1].msg_type = "Del" /\ ObjectMsgs[2].msg_type = "Add"
    /\ batch_hist[3].via = "add_to_batch" /\ ObjectMsgs[3].seq = 3

\* C20: the messages of a batch are the begin message, the objects added while it was
\* open in insertion order and, once finalized, exactly one end message after them;
\* an add on a finalized batch adds nothing.
C20_Lifecycle ==
    /\ batch.state \in {"Empty", "Open", "Finalized"}
    /\ batch.state = "Empty" => batch.msgs = <<>>
    /\ batch.state # "Empty" =>
          /\ batch.msgs[1].kind = "begin"
          /\ Len(SelectMsgs(batch.msgs, "begin")) = 1
          /\ Len(ObjectMsgs) = Len(OpenAdds(batch_hist))
          /\ \A i \in 1..Len(ObjectMsgs) : ObjectMsgs[i].obj = OpenAdds(batch_hist)[i].obj
    /\ batch.state = "Open" => Len(batch.msgs) = 1 + Len(ObjectMsgs)
    /\ batch.state = "Finalized" =>
          /\ Len(batch.msgs) = 2 + Len(ObjectMsgs)
          /\ batch.msgs[Len(batch.msgs)].kind = "end"
    /\ \A i \in 1..Len(batch_hist) :
          batch_hist[i].state = "Finalized" =>
              \A j \in i..Len(batch_hist) : batch_hist[j].state = "Finalized"

C20_Witness ==
    /\ batch.state = "Finalized" /\ batch_res = "rejected"
    /\ Len(batch_hist) = 3 /\ batch_hist[3].state = "Finalized"
    /\ Len(ObjectMsgs) = 2

----------------------------------------------------------------------------
(* The transport and response processor (spec.md, section 4.5).  The kernel
   answers the batch that was sent with control messages; the receive loop
   takes them off the socket one at a time, classifies each with parse_nlmsg
   and reports an outcome for every sequence number of the batch. *)

\* an nlmsgerr reply to the request numbered seq, with error field code
error_reply(code, seq) ==
    le32(36) \o le16(NLMSG_ERROR) \o le16(0) \o le32(seq) \o le32(0)
        \o le32(code)
        \o le32(20) \o le16(256 * NFNL_SUBSYS_NFTABLES + 6) \o le16(5) \o le32(seq) \o le32(0)

\* a NOOP or DONE message: the bare header
control_reply(type) ==
    le32(16) \o le16(type) \o le16(0) \o le32(0) \o le32(0)

Pending == [state |-> "pending", code |-> 0]

Succeeded == [state |-> "succeeded", code |-> 0]

Failed(c) == [state |-> "failed", code |-> c]

\* every sequence number of the batch has been acknowledged
all_acknowledged(out) == \A s \in DOMAIN out : out[s] # Pending

\* Error(code, seq): code 0 acknowledges seq, any other code is the kernel error of seq
record_error(out, seq, error) ==
    IF seq \notin DOMAIN out THEN out
    ELSE [out EXCEPT ![seq] = IF error = 0 THEN Succeeded ELSE Failed(error)]

\* Done ends the loop
ends_loop(r) == r.msg = "Done"

\* one iteration of the receive loop on message m: [pc, outcomes]
recv_step(m, out) ==
    LET r == parse_nlmsg(m) IN
    IF r.tag = "Panic" THEN [pc |-> "panic", outcomes |-> out]
    ELSE IF r.tag = "Err" THEN [pc |-> "failed", outcomes |-> out]
    ELSE IF ends_loop(r) THEN [pc |-> "stopped", outcomes |-> out]
    ELSE IF r.msg = "Error"
    THEN LET o == record_error(out, r.hdr.nlmsg_seq, r.error) IN
         [pc |-> IF all_acknowledged(o) THEN "stopped" ELSE "recv", outcomes |-> o]
    ELSE [pc |-> "recv", outcomes |-> out]

\* the sequence numbers a batch may have issued, the error fields the kernel may
\* send, and the number of Noop messages it may interleave
SeqNumbers == {5, 6}

ErrorFields == {0, 2, -2, I32_MIN}

MaxNoops == 1

SentOfType(t) == SelectSeq(sent, LAMBDA r : r.type = t)

Replied == {sent[i].seq : i \in {j \in 1..Len(sent) : sent[j].type = NLMSG_ERROR}}

\* the kernel answers one request that it has not answered yet
KernelReply ==
    /\ recv_pc = "recv"
    /\ \E s \in issued \ Replied, c \in ErrorFields :
          /\ inbox' = Append(inbox, error_reply(c, s))
          /\ sent' = Append(sent, [type |-> NLMSG_ERROR, code |-> c, seq |-> s])
    /\ UNCHANGED <<issued, outcomes, recv_pc, pores>>
    /\ UNCHANGED <<overflow_checks, nlvars, avars, rvars, bvars>>

KernelNoop ==
    /\ recv_pc = "recv"
    /\ Len(SentOfType(NLMSG_NOOP)) < MaxNoops
    /\ inbox' = Append(inbox, control_reply(NLMSG_NOOP))
    /\ sent' = Append(sent, [type |-> NLMSG_NOOP, code |-> 0, seq |-> 0])
    /\ UNCHANGED <<issued, outcomes, recv_pc, pores>>
    /\ UNCHANGED <<overflow_checks, nlvars, avars, rvars, bvars>>

KernelDone ==
    /\ recv_pc = "recv"
    /\ SentOfType(NLMSG_DONE) = <<>>
    /\ inbox' = Append(inbox, control_reply(NLMSG_DONE))
    /\ sent' = Append(sent, [type |-> NLMSG_DONE, code |-> 0, seq |-> 0])
    /\ UNCHANGED <<issued, outcomes, recv_pc, pores>>
    /\ UNCHANGED <<overflow_checks, nlvars, avars, rvars, bvars>>

\* the loop takes the oldest message off the socket
Receive ==
    /\ recv_pc = "recv"
    /\ inbox # <<>>
    /\ LET n == recv_step(Head(inbox), outcomes) IN
          /\ recv_pc' = n.pc
          /\ outcomes' = n.outcomes
    /\ inbox' = Tail(inbox)
    /\ UNCHANGED <<issued, sent, pores>>
    /\ UNCHANGED <<overflow_checks, nlvars, avars, rvars, bvars>>

InitRecv ==
    /\ overflow_checks \in BOOLEAN
    /\ ParseIdle /\ CodecIdle /\ RuleIdle /\ BatchIdle
    /\ issued \in (SUBSET SeqNumbers) \ {{}}
    /\ inbox = <<>> /\ sent = <<>>
    /\ outcomes = [s \in issued |-> Pending]
    /\ recv_pc = "recv"
    /\ pores = <<>>

NextRecv == KernelReply \/ KernelNoop \/ KernelDone \/ Receive

\* the kernel answers every request and the loop takes every message that waits
SpecRecv ==
    InitRecv /\ [][NextRecv]_vars /\ WF_vars(KernelReply) /\ WF_vars(Receive)

\* the messages the loop has taken off the socket, in order
Taken == SubSeq(sent, 1, Len(sent) - Len(inbox))

TakenFor(s) == SelectSeq(Taken, LAMBDA r : r.type = NLMSG_ERROR /\ r.seq = s)

DoneTaken == \E i \in 1..Len(Taken) : Taken[i].type = NLMSG_DONE

AllAcknowledged == \A s \in issued : TakenFor(s) # <<>>

Terminated == recv_pc \in {"stopped", "failed", "panic"}

NoopTaken ==
    /\ recv_pc = "recv" /\ inbox # <<>>
    /\ sent[Len(sent) - Len(inbox) + 1].type = NLMSG_NOOP
    /\ inbox' = Tail(inbox)

----------------------------------------------------------------------------
(* parse_object: from a parsed message to the attribute reader of its payload and
   the data that follows the message in the buffer *)

ObjBase ==
    [tag |-> "None", err |-> "", arg |-> -1, nfgenmsg |-> NoGen,
     content |-> <<>>, reader |-> NoReader, remaining_data |-> <<>>]

ObjErr(e, a) == [ObjBase EXCEPT !.tag = "Err", !.err = e, !.arg = a]

\* the call aborted on an overflow check or on a slice index out of range
ObjPanic == [ObjBase EXCEPT !.tag = "Panic"]

\* &buf[pad_netlink_object_with_variable_size(hdr.nlmsg_len as usize)..]
remaining_data_of(hdr, b) ==
    Slice(b, pad_netlink_object_with_variable_size(hdr.nlmsg_len), Len(b))

\* _ => Err(DecodeError::UnexpectedType(hdr.nlmsg_type))
unexpected(hdr) == ObjErr("UnexpectedType", hdr.nlmsg_type)

\* parse_object(hdr, msg, buf), r the (hdr, msg) that parse_nlmsg(buf) returned
parse_object(r, b) ==
    LET hdr == r.hdr
        fixed == pad_netlink_object_with_variable_size(size_of_nlmsghdr + size_of_Nfgenmsg)
        \* a usize that wrapped below zero is kept as the negative number
        remaining_size == hdr.nlmsg_len - fixed
    IN
    IF remaining_size < 0 /\ overflow_checks THEN ObjPanic
    ELSE IF pad_netlink_object_with_variable_size(hdr.nlmsg_len) > Len(b) THEN ObjPanic
    ELSE
    LET remaining_data == remaining_data_of(hdr, b) IN
    IF r.msg = "NfGenMsg"
    THEN LET n == reader_new(BOf(r.raw_value), remaining_size) IN
         IF ~n.ok THEN ObjErr(n.err, -1)
         ELSE [ObjBase EXCEPT !.tag = "Ok", !.nfgenmsg = r.nfgenmsg,
                              !.content = r.raw_value, !.reader = n.reader,
                              !.remaining_data = remaining_data]
    ELSE unexpected(hdr)

\* The buffers: up to MaxMsgs messages one after the other, each filled up to a
\* multiple of 4 bytes, the last one either filled up or ending at its declared length
MaxMsgs == 2

NFT_NEWRULE_TYPE == 256 * NFNL_SUBSYS_NFTABLES + NFT_MSG_NEWRULE

MsgShapes ==
    {<<NLMSG_NOOP, 16>>, <<NLMSG_NOOP, 20>>, <<NLMSG_DONE, 16>>, <<NLMSG_DONE, 24>>,
     <<NLMSG_ERROR, 36>>,
     <<NFT_NEWRULE_TYPE, 20>>, <<NFT_NEWRULE_TYPE, 21>>, <<NFT_NEWRULE_TYPE, 24>>,
     <<NFT_NEWRULE_TYPE, 27>>}

\* the bytes of message number seq of the buffer, of the given type and declared length
msg_bytes(type, len, seq) ==
    Take(le32(len) \o le16(type) \o le16(0) \o le32(seq) \o le32(0)
            \o (IF type = NLMSG_ERROR THEN le32(-2) \o OrigHdr
                ELSE <<2, NFNETLINK_V0, 0, 0>> \o <<11, 12, 13, 14, 15, 16, 17, 18>>),
         len)

Zeros(n) == [i \in 1..n |-> 0]

padded(bytes) ==
    bytes \o Zeros(pad_netlink_object_with_variable_size(Len(bytes)) - Len(bytes))

RECURSIVE Rest(_, _)
\* the bytes of the messages from number k on
Rest(ms, k) == IF k > Len(ms) THEN <<>> ELSE ms[k] \o Rest(ms, k + 1)

Streams == UNION {[1..n -> MsgShapes] : n \in 1..MaxMsgs}

ParseObject ==
    /\ nlpc = "parsed"
    /\ nlres.tag = "Ok"
    /\ pores' = parse_object(nlres, buf)
    /\ nlpc' = "object"
    /\ UNCHANGED <<issued, inbox, sent, outcomes, recv_pc>>
    /\ UNCHANGED <<overflow_checks, buf, nlres, avars, rvars, bvars>>

\* the caller goes on with the remaining data
NextMessage ==
    /\ nlpc = "object"
    /\ pores.tag \in {"Ok", "Err"}
    /\ pores.err \in {"", "UnexpectedType"}
    /\ LET rest == IF pores.tag = "Ok" THEN pores.remaining_data
                   ELSE remaining_data_of(nlres.hdr, buf)
       IN
          /\ rest # <<>>
          /\ buf' = rest
    /\ nlpc' = "recv"
    /\ UNCHANGED <<issued, inbox, sent, outcomes, recv_pc, pores>>
    /\ UNCHANGED <<overflow_checks, nlres, avars, rvars, bvars>>

InitObject ==
    /\ overflow_checks \in BOOLEAN
    /\ CodecIdle /\ RuleIdle /\ BatchIdle
    /\ \E ms \in Streams, fill \in BOOLEAN :
          /\ sent = [i \in 1..Len(ms) |->
                        LET m == msg_bytes(ms[i][1], ms[i][2], i) IN
                        IF i < Len(ms) \/ fill THEN padded(m) ELSE m]
          /\ buf = Rest(sent, 1)
    /\ nlpc = "recv" /\ nlres = ParseBase
    /\ issued = {} /\ inbox = <<>> /\ outcomes = <<>> /\ recv_pc = "idle"
    /\ pores = ObjBase

NextObject == ParseNlmsg \/ ParseObject \/ NextMessage

SpecObject == InitObject /\ [][NextObject]_vars

\* the number of the message the buffer starts with
AtMessage(k) == k \in 1..Len(sent) /\ buf = Rest(sent, k)

\* C23: for every message that parse_nlmsg accepts as an nftables object, the payload
\* is the bytes [20, nlmsg_len) of the buffer, parse_object succeeds, the remaining
\* data is the bytes from nlmsg_len rounded up to a multiple of 4 to the end of the
\* buffer, that offset lies within the buffer, and the buffer the caller goes on with
\* starts with the next message of the stream.
C23_Boundaries ==
    /\ (nlpc = "object" /\ nlres.msg = "NfGenMsg") =>
          LET len == nlres.hdr.nlmsg_len
              off == pad_netlink_object_with_variable_size(len)
          IN
          /\ nlres.raw_value = Slice(buf, 20, len)
          /\ off <= Len(buf)
          /\ pores.tag = "Ok"
          /\ pores.content = nlres.raw_value
          /\ pores.remaining_data = Slice(buf, off, Len(buf))
    /\ (nlpc \in {"recv", "parsed", "object"}) =>
          \E k \in 1..Len(sent) :
             /\ AtMessage(k)
             /\ (nlpc # "recv" /\ nlres.tag = "Ok" => nlres.hdr = read_nlmsghdr(sent[k], 0))

\* C25: for every control message that parse_nlmsg accepts (Noop, Done, Error; a NOOP
\* or DONE of the bare 16 bytes included) parse_object returns the error
\* UnexpectedType(message type) and fails in no other way; it returns a reader only
\* for an NfGenMsg.
C25_ControlUnexpected ==
    nlpc = "object" =>
        /\ (nlres.msg \in {"Noop", "Done", "Error"} =>
               pores = ObjErr("UnexpectedType", nlres.hdr.nlmsg_type))
        /\ (pores.tag = "Ok" => nlres.msg = "NfGenMsg")

----------------------------------------------------------------------------
(* The budget of NfNetlinkAttributeReader::decode *)

\* the reader is at the start of a pass of the loop that takes the payload slice of
\* the attribute at pos
TakesSlice ==
    /\ apc = "reading" /\ loop_cond(rd)
    /\ rd.pos >= 0 /\ rd.pos + size_of_nlattr <= BLen(wire)
    /\ bu16_at(wire, rd.pos) >= size_of_nlattr
    /\ rd.pos + bu16_at(wire, rd.pos) <= BLen(wire)

\* C24: decode stays within the declared remaining size: at the start of every pass of
\* the loop pos + remaining_size is the size the reader was made with, remaining_size
\* is not below 0, and the payload slice [pos + 4, pos + nla_len) of the attribute the
\* pass reads ends within that size.
C24_WithinBudget ==
    apc = "reading" =>
        /\ rd.pos + rd.remaining_size = declared
        /\ rd.remaining_size >= 0
        /\ (TakesSlice => rd.pos + bu16_at(wire, rd.pos) <= declared)

----------------------------------------------------------------------------
(* Termination of NfNetlinkAttributeReader::decode *)

\* the loop of decode is scheduled until decode returns
SpecReaderFair == SpecReader /\ WF_vars(NextReader)

\* a pass of the loop that ends with the loop still running
LoopPass == apc = "reading" /\ apc' = "reading" /\ rd' # rd

\* C26: decode terminates on every input: every pass of the loop makes remaining_size
\* strictly smaller, by the declared length of the attribute it read rounded up to a
\* multiple of 4 and without passing below 0, so that the loop makes at most
\* remaining_size / 4 passes, and decode ends, whatever the nla_len values are.
C26_DecodeTerminates ==
    /\ [][LoopPass =>
            /\ rd'.remaining_size < rd.remaining_size
            /\ (rd.remaining_size >= 0 => rd'.remaining_size >= 0)
            /\ (rd.pos + size_of_nlattr <= BLen(wire) =>
                  rd.remaining_size - rd'.remaining_size
                     = pad_netlink_object_with_variable_size(bu16_at(wire, rd.pos)))]_vars
    /\ [](apc \in {"reading", "done"} => 4 * rd.count <= declared)
    /\ <>(apc = "done")

----------------------------------------------------------------------------
(* A rule from Rule::new to its serialization *)

UserData == {"a", "b"}

SetUserdata ==
    /\ rpc = "build"
    /\ \E data \in UserData : rules' = [rules EXCEPT ![1] = set_userdata(@, data)]
    /\ UNCHANGED <<added, rpc, eqres, nlhdr_out, bcall, iter, seen>>
    /\ UNCHANGED <<overflow_checks, nlvars, avars, bvars, pvars>>

InitFrame ==
    /\ overflow_checks = FALSE
    /\ ParseIdle /\ CodecIdle /\ BatchIdle /\ RecvIdle
    /\ \E c \in Chains : rules = <<rule_new(c), rule_new(c)>>
    /\ added = <<>> /\ rpc = "build" /\ eqres = <<>>
    /\ nlhdr_out = <<>> /\ bcall = NoCall /\ iter = 0 /\ seen = <<>>

\* the number of operations made on one rule before it is serialized
MaxFrameOps == 2

FrameOps ==
    Cardinality(rules[1].set) + Len(rules[1].userdata) + Len(added) + bcall.n

NextFrame ==
    \/ /\ rpc = "build" /\ FrameOps < MaxFrameOps
       /\ \/ SetHandle \/ SetPosition \/ AddExpr \/ SetUserdata
          \/ MatchPort \/ Iface \/ Oface \/ Network \/ Dnat
    \/ WriteRule

SpecFrame == InitFrame /\ [][NextFrame]_vars

\* family, table name and chain name of the rule are those of its chain
ConsistentWithChain(r) ==
    /\ r.family = get_family(get_table(get_chain(r)))
    /\ r.table = get_name(get_table(get_chain(r)))
    /\ r.chain_name = get_name(get_chain(r))

----------------------------------------------------------------------------
(* Network matches *)

\* C28: snetwork and dnetwork append Meta(NfProto), Cmp(Eq, [protocol number of the
\* IP version]), a load of the source (snetwork) or destination (dnetwork) address of
\* that version, Bitwise(mask of the network, xor of zero bytes) and Cmp(Eq, network
\* address), in that order; mask and xor are both 4 bytes (IPv4) or 16 bytes (IPv6)
\* long, so InvalidMaskLength is never returned.
C28_NetworkMatch ==
    bcall.op \in {"snetwork", "dnetwork"} =>
        LET n == IF bcall.net.v = 4 THEN 4 ELSE 16 IN
        /\ bcall.err = "" /\ rpc = "build"
        /\ SubSeq(rules[1].exprs, 1, Len(bcall.before)) = bcall.before
        /\ Len(Appended) = 5
        /\ Appended[1] = Meta("NfProto")
        /\ Appended[2] = Cmp("Eq", <<IF bcall.net.v = 4 THEN 2 ELSE 10>>)
        /\ Appended[3] = NetworkPayload(IF bcall.net.v = 4 THEN "IPv4" ELSE "IPv6",
                                        IF bcall.op = "snetwork" THEN "Saddr" ELSE "Daddr")
        /\ Appended[4].kind = "bitwise"
        /\ Appended[4].arg = net_mask(bcall.net).octets
        /\ Len(Appended[4].arg) = n /\ Len(Appended[4].data) = n
        /\ \A i \in 1..n : Appended[4].data[i] = 0
        /\ Appended[5] = Cmp("Eq", net_network(bcall.net).octets)

\* the scenario of the masked network match, as the source network of a rule that
\* already matches an IPv6 destination network
C28_Witness ==
    /\ bcall.op = "snetwork" /\ bcall.n = 2 /\ Len(bcall.before) = 5
    /\ bcall.before[3] = NetworkPayload("IPv6", "Daddr")
    /\ Len(bcall.before[4].data) = 16
    /\ Appended[4] = Expr("bitwise", <<255, 255, 255, 0>>, <<0, 0, 0, 0>>)
    /\ Appended[5] = Cmp("Eq", <<10, 1, 0, 0>>)

----------------------------------------------------------------------------
(* Verdicts (src/nftnl/src/expr/verdict.rs).  An nftnl_expr is a record: its name and
   the attributes that were set on it.  A u32 attribute that holds a negative i32
   (immediate_const as u32) is kept as that i32: the bits are the same. *)

\* libc::NF_DROP, NF_ACCEPT, NF_QUEUE, NFT_CONTINUE, NFT_BREAK, NFT_JUMP, NFT_GOTO,
\* NFT_RETURN
NF_DROP == 0
NF_ACCEPT == 1
NF_QUEUE == 3
NFT_CONTINUE == -1
NFT_BREAK == -2
NFT_JUMP == -3
NFT_GOTO == -4
NFT_RETURN == -5

\* libc::NFT_REG_VERDICT, NFT_REJECT_ICMPX_UNREACH, NFT_REJECT_ICMPX_HOST_UNREACH
NFT_REG_VERDICT == 0
NFT_REJECT_ICMPX_UNREACH == 2
NFT_REJECT_ICMPX_HOST_UNREACH == 2

\* enum Verdict: chain is <<>> or holds the target chain of Jump and Goto
Verdict(kind, chain) == [kind |-> kind, chain |-> chain]

VerdictKinds ==
    {"Drop", "Accept", "Reject", "Queue", "Continue", "Break", "Jump", "Goto", "Return"}

None == [some |-> FALSE, val |-> 0]

Some(x) == [some |-> TRUE, val |-> x]

\* mutant: Queue has no immediate constant
immediate_const_no_queue(v) ==
    CASE v.kind = "Drop" -> Some(NF_DROP)
      [] v.kind = "Accept" -> Some(NF_ACCEPT)
      [] v.kind = "Continue" -> Some(NFT_CONTINUE)
      [] v.kind = "Break" -> Some(NFT_BREAK)
      [] v.kind = "Jump" -> Some(NFT_JUMP)
      [] v.kind = "Goto" -> Some(NFT_GOTO)
      [] v.kind = "Return" -> Some(NFT_RETURN)
      [] OTHER -> None

\* Verdict::immediate_const
immediate_const(v) ==
    CASE v.kind = "Drop" -> Some(NF_DROP)
      [] v.kind = "Accept" -> Some(NF_ACCEPT)
      [] v.kind = "Queue" -> Some(NF_QUEUE)
      [] v.kind = "Continue" -> Some(NFT_CONTINUE)
      [] v.kind = "Break" -> Some(NFT_BREAK)
      [] v.kind = "Jump" -> Some(NFT_JUMP)
      [] v.kind = "Goto" -> Some(NFT_GOTO)
      [] v.kind = "Return" -> Some(NFT_RETURN)
      [] OTHER -> None

\* Verdict::chain
verdict_chain(v) ==
    CASE v.kind = "Jump" -> Some(v.chain[1])
      [] v.kind = "Goto" -> Some(v.chain[1])
      [] OTHER -> None

nftnl_expr_alloc(name) == [name |-> name, attrs |-> <<>>]

\* nftnl_expr_set_u32, nftnl_expr_set_u8 and nftnl_expr_set_str
nftnl_expr_set(e, attr, v) ==
    [e EXCEPT !.attrs = [a \in (DOMAIN @) \cup {attr} |-> IF a = attr THEN v ELSE @[a]]]

\* Verdict::immediate_to_expr
immediate_to_expr(v, const) ==
    LET expr == nftnl_expr_set(nftnl_expr_alloc("immediate"), "IMM_DREG", NFT_REG_VERDICT)
        chain == verdict_chain(v)
        e1 == IF chain.some THEN nftnl_expr_set(expr, "IMM_CHAIN", chain.val) ELSE expr
    IN  nftnl_expr_set(e1, "IMM_VERDICT", const)

\* impl Expression for Verdict :: to_expr; panic: the unreachable!() was reached
verdict_to_expr(v) ==
    LET c == immediate_const(v) IN
    IF c.some THEN [panic |-> FALSE, expr |-> immediate_to_expr(v, c.val)]
    ELSE IF v.kind = "Reject"
    THEN [panic |-> FALSE,
          expr |-> nftnl_expr_set(
                       nftnl_expr_set(nftnl_expr_alloc("reject"),
                                      "REJECT_TYPE", NFT_REJECT_ICMPX_UNREACH),
                       "REJECT_CODE", NFT_REJECT_ICMPX_HOST_UNREACH)]
    ELSE [panic |-> TRUE, expr |-> nftnl_expr_alloc("")]

\* the verdicts handed to add_expr
Verdicts ==
    {Verdict(k, <<>>) : k \in VerdictKinds \ {"Jump", "Goto"}}
    \cup {Verdict(k, <<c>>) : k \in {"Jump", "Goto"}, c \in {"in", "out"}}

\* rules[1].add_expr(&verdict)
AddVerdict ==
    /\ rpc = "build" /\ bcall.n < MaxBuilderCalls
    /\ \E v \in Verdicts :
          LET res == verdict_to_expr(v) IN
          /\ rules' = [rules EXCEPT ![1] = IF res.panic THEN @ ELSE add_expr(@, res.expr)]
          /\ rpc' = IF res.panic THEN "failed" ELSE "build"
          /\ bcall' = [NoCall EXCEPT !.op = "verdict", !.verdict = <<v>>,
                                     !.err = IF res.panic THEN "unreachable" ELSE "",
                                     !.before = rules[1].exprs, !.n = bcall.n + 1]
    /\ UNCHANGED <<added, eqres, nlhdr_out, iter, seen>>
    /\ UNCHANGED <<overflow_checks, nlvars, avars, bvars, pvars>>

InitVerdict == InitBuilder

NextVerdict == AddVerdict

SpecVerdict == InitVerdict /\ [][NextVerdict]_vars

\* the verdict code of each kind that has one
VerdictCode(kind) ==
    CASE kind = "Drop" -> 0 [] kind = "Accept" -> 1 [] kind = "Queue" -> 3
      [] kind = "Continue" -> -1 [] kind = "Break" -> -2 [] kind = "Jump" -> -3
      [] kind = "Goto" -> -4 [] kind = "Return" -> -5

\* C29: to_expr yields an expression for each of the nine kinds of verdict and never
\* reaches its unreachable branch: every kind but Reject becomes an "immediate" whose
\* destination register is the verdict register and whose verdict is the code of the
\* kind, with a chain attribute exactly for Jump and Goto (the target chain); Reject
\* becomes a "reject" that carries a reject type and an ICMPX unreachable code.
C29_VerdictEncoding ==
    bcall.op = "verdict" =>
        LET v == bcall.verdict[1] IN
        /\ bcall.err = "" /\ rpc = "build"
        /\ Len(Appended) = 1
        /\ IF v.kind = "Reject"
           THEN /\ Appended[1].name = "reject"
                /\ DOMAIN Appended[1].attrs = {"REJECT_TYPE", "REJECT_CODE"}
                /\ Appended[1].attrs["REJECT_TYPE"] = 2
                /\ Appended[1].attrs["REJECT_CODE"] = 2
           ELSE /\ Appended[1].name = "immediate"
                /\ {"IMM_DREG", "IMM_VERDICT"} \subseteq DOMAIN Appended[1].attrs
                /\ Appended[1].attrs["IMM_DREG"] = 0
                /\ Appended[1].attrs["IMM_VERDICT"] = VerdictCode(v.kind)
                /\ ("IMM_CHAIN" \in DOMAIN Appended[1].attrs <=> v.kind \in {"Jump", "Goto"})
                /\ (v.kind \in {"Jump", "Goto"} => Appended[1].attrs["IMM_CHAIN"] = v.chain[1])

\* a rule that jumps to the chain "out" after a queue verdict
C29_Witness ==
    /\ bcall.op = "verdict" /\ bcall.n = 2
    /\ bcall.before[1].name = "immediate" /\ bcall.before[1].attrs["IMM_VERDICT"] = 3
    /\ bcall.verdict = <<Verdict("Jump", <<"out">>)>>
    /\ Appended[1].attrs["IMM_CHAIN"] = "out"

----------------------------------------------------------------------------
(* Destination NAT *)

\* the registers loaded by the immediates among the expressions es
LoadedBy(es) == {es[i].arg : i \in {j \in 1..Len(es) : es[j].kind = "immediate"}}

\* C30: dnat(dst, port) appends an Immediate that loads dst into register 1, then, when
\* a port is given, an Immediate that loads the port as 2 big-endian bytes into
\* register 2, then a Nat of kind DNat whose ip_register is register 1, whose
\* port_register is register 2 when a port is given and absent otherwise, and whose
\* family is that of dst (IPv4 for a V4 address, IPv6 for a V6 address); the registers
\* the Nat reads are loaded by the expressions appended before it.
C30_Dnat ==
    bcall.op = "dnat" =>
        LET has_port == bcall.port_opt # <<>>
            n == IF has_port THEN 3 ELSE 2
        IN
        /\ SubSeq(rules[1].exprs, 1, Len(bcall.before)) = bcall.before
        /\ Len(Appended) = n
        /\ Appended[1] = Expr("immediate", "Reg1", bcall.dst.octets)
        /\ (has_port =>
               Appended[2] = Expr("immediate", "Reg2",
                                  <<bcall.port_opt[1] \div 256, bcall.port_opt[1] % 256>>))
        /\ Appended[n].kind = "nat"
        /\ Appended[n].arg.nat_type = <<"DNat">>
        /\ Appended[n].arg.ip_register = <<"Reg1">>
        /\ Appended[n].arg.port_register = (IF has_port THEN <<"Reg2">> ELSE <<>>)
        /\ Appended[n].arg.family = (IF bcall.dst.v = 4 THEN <<"Ipv4">> ELSE <<"Ipv6">>)
        /\ {Appended[n].arg.ip_register[1]} \cup
           {Appended[n].arg.port_register[i] : i \in 1..Len(Appended[n].arg.port_register)}
              \subseteq LoadedBy(SubSeq(Appended, 1, n - 1))

====
